---- MODULE Spec2Model ----
(***************************************************************************)
(* A model of cppbmpfile (include/cppbmpfile/cppbmpfile.hpp): the four     *)
(* public operations of bmp_file -- compute_buffer_size, load (properties  *)
(* only), load (into a buffer) and save -- acting on one file of the       *)
(* file system, the caller's pixel buffer and the caller's image           *)
(* properties.                                                             *)
(*                                                                         *)
(* Machine integers.  TLC's integers are 32 bit, so the widths of the      *)
(* C++ types are scaled down and kept in proportion: the uint32_t/int32_t  *)
(* fields width and height have DimBits bits, size_t has 2 * DimBits bits. *)
(* Every operation the code performs in size_t or uint32_t arithmetic is   *)
(* reduced modulo the scaled width here.  The other header fields          *)
(* (offset, sizes, colour counts) never come near 2^32 within the inputs   *)
(* of the model and are plain naturals.                                    *)
(***************************************************************************)
EXTENDS Integers, Sequences, FiniteSets, TLC

\* ------------------------------------------------------------ bounds
\* Bits of the (scaled) uint32_t / int32_t of width and height.
DimBits == 4
\* Bytes the caller has allocated for the pixel buffer.
BufLen == 24
\* The environment may make the k-th stream operation of a call fail, k in 1..MaxFault.
MaxFault == 6
MaxSteps == 2

\* ------------------------------------------------------------ machine arithmetic
SizeBits == 2 * DimBits
DimMod == 2 ^ DimBits
SizeMod == 2 ^ SizeBits
I32Max == 2 ^ (DimBits - 1) - 1
I32Min == 0 - 2 ^ (DimBits - 1)

\* conversion to uint32_t (static_cast / implicit), scaled
ToU32(x) == x % DimMod
\* static_cast<int32_t>(uint32_t), scaled: two's complement
ToI32(x) == IF x % DimMod > I32Max THEN (x % DimMod) - DimMod ELSE x % DimMod
\* implicit conversion to size_t, scaled
ToSize(x) == x % SizeMod
\* abs(int): abs(INT_MIN) is undefined; the two's complement negation every
\* common build produces leaves INT_MIN. The inputs of the model avoid INT_MIN.
Abs32(x) == IF x >= 0 THEN x ELSE IF x = I32Min THEN I32Min ELSE 0 - x

Min(a, b) == IF a < b THEN a ELSE b
Max(a, b) == IF a > b THEN a ELSE b

\* ------------------------------------------------------------ types
Byte == 0 .. 255
\* What a read outside the object yields (undefined behaviour): no byte at all.
Poison == 0 - 1

PixelFormats == {"Mono8", "BGR8", "BGRA8", "invalid"}
Orientations == {"top_down", "bottom_up", "invalid"}
ResultKinds ==
    {"ok", "file_not_found", "file_open_for_writing_error", "file_read_error",
     "file_write_error", "buffer_too_small", "not_a_bmp_file",
     "unsupported_compression", "unsupported_bit_per_pixel",
     "unsupported_use_of_color_table", "too_large_color_table", "corrupt",
     "null_argument", "invalid_argument", "invalid"}

\* image_properties() : the default member initialisers
DefaultProps ==
    [width |-> 0, height |-> 0, line_padding |-> 0,
     pixel_format |-> "invalid", orientation |-> "bottom_up"]

\* sizeof(bmp_header), #pragma pack(1)
HeaderSize == 54
\* sizeof(color_table_entry)
EntrySize == 4
\* 'BM'
Magic == 19778

\* bmp_header header = {}
ZeroHeader ==
    [type |-> 0, size |-> 0, reserved1 |-> 0, reserved2 |-> 0, offset |-> 0,
     bitmap_info_header_size |-> 0, width |-> 0, height |-> 0, num_planes |-> 0,
     bits_per_pixel |-> 0, compression |-> 0, image_size_bytes |-> 0,
     x_resolution |-> 0, y_resolution |-> 0, num_colors |-> 0,
     important_colors |-> 0]

\* A file: its first hlen bytes (at most 54) are the packed header record hdr
\* (meaningful when hlen = 54); body holds the bytes from offset 54 on.
\* NoFile: no file of that name exists.
NoFile == [exists |-> FALSE]
MkFile(hlen, hdr, body) == [exists |-> TRUE, hlen |-> hlen, hdr |-> hdr, body |-> body]
EmptyFile == MkFile(0, ZeroHeader, << >>)

\* ------------------------------------------------------------ geometry
byte_per_pixel_in_file(bits_per_pixel) ==
    IF bits_per_pixel = 8 THEN 1
    ELSE IF bits_per_pixel = 24 THEN 3
    ELSE IF bits_per_pixel = 32 THEN 4
    ELSE 0

determine_stride(bits_per_pixel, width) ==
    LET stride == ToSize(byte_per_pixel_in_file(bits_per_pixel) * ToSize(Abs32(width)))
    IN  IF stride % 4 = 0 THEN stride ELSE ToSize(stride + (4 - (stride % 4)))

determine_line_padding(bits_per_pixel, width) ==
    LET stride == ToSize(byte_per_pixel_in_file(bits_per_pixel) * ToSize(Abs32(width)))
    IN  IF stride % 4 = 0 THEN 0 ELSE 4 - (stride % 4)

byte_per_pixel(pixel_format) ==
    IF pixel_format = "Mono8" THEN 1
    ELSE IF pixel_format = "BGR8" THEN 3
    ELSE IF pixel_format = "BGRA8" THEN 4
    ELSE 0

\* determine_stride(const image_properties&)
determine_stride_props(p) ==
    ToSize(p.width * byte_per_pixel(p.pixel_format) + p.line_padding)

\* mutant: the line padding is left out
M_compute_buffer_size_no_padding(p) ==
    IF p.height = 0 \/ p.width = 0 \/ p.pixel_format = "invalid"
    THEN 0
    ELSE ToSize(p.width * byte_per_pixel(p.pixel_format) * p.height)

\* mutant: rejects an invalid orientation, as save does
M_compute_buffer_size_orientation(p) ==
    IF p.height = 0 \/ p.width = 0 \/ p.pixel_format = "invalid"
       \/ p.orientation = "invalid"
    THEN 0
    ELSE ToSize(determine_stride_props(p) * p.height)

compute_buffer_size(p) ==
    IF p.height = 0 \/ p.width = 0 \/ p.pixel_format = "invalid"
    THEN 0
    ELSE ToSize(determine_stride_props(p) * p.height)

\* ------------------------------------------------------------ streams
\* A stream on the file: pos is the read position, good is !fail(), log the
\* stream operations attempted so far, in order. An operation on a stream that
\* is not good does nothing and leaves it not good. fault = k > 0: the
\* environment makes the k-th operation fail; fault = 0: it never does.
OpenStream == [pos |-> 0, good |-> TRUE, log |-> << >>]

Ev(op, what, ok) == [op |-> op, what |-> what, ok |-> ok]

Faulty(s, fault) == fault = Len(s.log) + 1

\* The bytes of the body at file positions pos .. pos + n - 1 that exist.
Avail(f, pos, n) ==
    LET from == pos - HeaderSize + 1
        to == Min(pos - HeaderSize + n, Len(f.body))
    IN  IF pos < HeaderSize \/ from > to THEN << >> ELSE SubSeq(f.body, from, to)

\* istream::read of n bytes: [s, data]; data are the bytes stored (gcount of them)
StreamRead(f, s, n, what, fault) ==
    LET data == IF s.good /\ ~Faulty(s, fault) THEN Avail(f, s.pos, n) ELSE << >>
        ok == s.good /\ ~Faulty(s, fault) /\ Len(data) = n
    IN  [s |-> [pos |-> s.pos + Len(data), good |-> ok,
                log |-> Append(s.log, Ev("read", what, ok))],
         data |-> data]

\* istream::seekg: a seek behind the end of the file succeeds
StreamSeek(s, pos, what, fault) ==
    LET ok == s.good /\ ~Faulty(s, fault)
    IN  [pos |-> IF ok THEN pos ELSE s.pos, good |-> ok,
         log |-> Append(s.log, Ev("seek", what, ok))]

\* ------------------------------------------------------------ header codec
\* stream.read(&header_out, sizeof(header_out)): [s, header]
ReadHeader(f, s, fault) ==
    LET ok == s.good /\ ~Faulty(s, fault) /\ f.hlen = HeaderSize
    IN  [s |-> [pos |-> IF ok THEN HeaderSize ELSE s.pos, good |-> ok,
                log |-> Append(s.log, Ev("read", "header", ok))],
         header |-> IF ok THEN f.hdr ELSE ZeroHeader]

\* mutant: the compression is checked before the bits per pixel are
M_check_header_compression_first(header) ==
    IF header.type # Magic THEN "not_a_bmp_file"
    ELSE IF header.bitmap_info_header_size < 40 THEN "corrupt"
    ELSE IF header.offset < HeaderSize THEN "corrupt"
    ELSE IF header.height = 0 \/ header.width <= 0 THEN "corrupt"
    ELSE IF header.compression # 0 THEN "unsupported_compression"
    ELSE IF ~(header.bits_per_pixel \in {1, 4, 8, 16, 24, 32}) THEN "corrupt"
    ELSE IF ~(header.bits_per_pixel \in {8, 24, 32}) THEN "unsupported_bit_per_pixel"
    ELSE IF header.bits_per_pixel \in {24, 32}
            /\ (header.num_colors # 0 \/ header.important_colors # 0)
         THEN "unsupported_use_of_color_table"
    ELSE IF header.bits_per_pixel = 8
            /\ (header.num_colors > 256 \/ header.important_colors > 256)
         THEN "too_large_color_table"
    ELSE LET image_data_size ==
                 ToSize(determine_stride(header.bits_per_pixel, header.width)
                        * ToSize(Abs32(header.height)))
         IN  IF ~(header.image_size_bytes = 0 \/ header.image_size_bytes = image_data_size)
             THEN "corrupt"
             ELSE "ok"

\* mutant: 16 bit per pixel pass as supported
M_check_header_16_bit(header) ==
    IF header.type # Magic THEN "not_a_bmp_file"
    ELSE IF header.bitmap_info_header_size < 40 THEN "corrupt"
    ELSE IF header.offset < HeaderSize THEN "corrupt"
    ELSE IF header.height = 0 \/ header.width <= 0 THEN "corrupt"
    ELSE IF ~(header.bits_per_pixel \in {1, 4, 8, 16, 24, 32}) THEN "corrupt"
    ELSE IF header.compression # 0 THEN "unsupported_compression"
    ELSE IF ~(header.bits_per_pixel \in {8, 16, 24, 32}) THEN "unsupported_bit_per_pixel"
    ELSE IF header.bits_per_pixel \in {24, 32}
            /\ (header.num_colors # 0 \/ header.important_colors # 0)
         THEN "unsupported_use_of_color_table"
    ELSE IF header.bits_per_pixel = 8
            /\ (header.num_colors > 256 \/ header.important_colors > 256)
         THEN "too_large_color_table"
    ELSE LET image_data_size ==
                 ToSize(determine_stride(header.bits_per_pixel, header.width)
                        * ToSize(Abs32(header.height)))
         IN  IF ~(header.image_size_bytes = 0 \/ header.image_size_bytes = image_data_size)
             THEN "corrupt"
             ELSE "ok"

\* The checks of load_and_check_header on a header that was read completely.
check_header(header) ==
    IF header.type # Magic THEN "not_a_bmp_file"
    ELSE IF header.bitmap_info_header_size < 40 THEN "corrupt"
    ELSE IF header.offset < HeaderSize THEN "corrupt"
    ELSE IF header.height = 0 \/ header.width <= 0 THEN "corrupt"
    ELSE IF ~(header.bits_per_pixel \in {1, 4, 8, 16, 24, 32}) THEN "corrupt"
    ELSE IF header.compression # 0 THEN "unsupported_compression"
    ELSE IF ~(header.bits_per_pixel \in {8, 24, 32}) THEN "unsupported_bit_per_pixel"
    ELSE IF header.bits_per_pixel \in {24, 32}
            /\ (header.num_colors # 0 \/ header.important_colors # 0)
         THEN "unsupported_use_of_color_table"
    ELSE IF header.bits_per_pixel = 8
            /\ (header.num_colors > 256 \/ header.important_colors > 256)
         THEN "too_large_color_table"
    ELSE LET image_data_size ==
                 ToSize(determine_stride(header.bits_per_pixel, header.width)
                        * ToSize(Abs32(header.height)))
         IN  IF ~(header.image_size_bytes = 0 \/ header.image_size_bytes = image_data_size)
             THEN "corrupt"
             ELSE "ok"

\* load_and_check_header, given what the read of the header returned
checked_header(r) ==
    [result |-> IF ~r.s.good THEN "not_a_bmp_file" ELSE check_header(r.header),
     header |-> r.header, s |-> r.s]

\* load_and_check_header: [result, header, s]
load_and_check_header(f, s, fault) == checked_header(ReadHeader(f, s, fault))

\* ------------------------------------------------------------ colour table
\* A colour table is a sequence of entries [b, g, r, reserved]; entry i of the
\* code is element i + 1 here.
Entries(bytes, n) ==
    [i \in 1 .. n |->
        [b |-> bytes[4 * i - 3], g |-> bytes[4 * i - 2],
         r |-> bytes[4 * i - 1], reserved |-> bytes[4 * i]]]

\* color_table_out.size() after the resize chain of load_color_table
table_size(header) ==
    IF header.num_colors # 0 THEN header.num_colors
    ELSE IF header.bits_per_pixel = 1 THEN 1
    ELSE IF header.bits_per_pixel = 4 THEN 16
    ELSE IF header.bits_per_pixel = 8 THEN 256
    ELSE 0

\* load_color_table, given what the read of the n entries returned
color_table_read(rd, n) ==
    IF ~rd.s.good
    THEN [result |-> "file_read_error", color_table |-> << >>, s |-> rd.s]
    ELSE [result |-> "ok", color_table |-> Entries(rd.data, n), s |-> rd.s]

\* load_color_table, given the stream s1 after the seek to the table
color_table_sought(f, s1, n, fault) ==
    IF ~s1.good
    THEN [result |-> "file_read_error", color_table |-> << >>, s |-> s1]
    ELSE IF n = 0
    THEN [result |-> "unsupported_use_of_color_table", color_table |-> << >>, s |-> s1]
    ELSE color_table_read(StreamRead(f, s1, n * EntrySize, "color_table", fault), n)

\* load_color_table: [result, color_table, s]
load_color_table(f, s, header, fault) ==
    color_table_sought(f,
        StreamSeek(s, header.bitmap_info_header_size + 14, "color_table", fault),
        table_size(header), fault)

\* mutant: only the first entry is compared with the identity
M_check_is_linear_mono8_first_entry(color_table) ==
    \A i \in 1 .. Min(1, Len(color_table)) :
        LET e == color_table[i]
            k == (i - 1) % 256
        IN  e.b = k /\ e.g = k /\ e.r = k

check_is_linear_mono8(color_table) ==
    \A i \in 1 .. Len(color_table) :
        LET e == color_table[i]
            k == (i - 1) % 256
        IN  e.b = k /\ e.g = k /\ e.r = k

check_is_mono8(color_table) ==
    \A i \in 1 .. Len(color_table) :
        color_table[i].r = color_table[i].g /\ color_table[i].r = color_table[i].b

\* ------------------------------------------------------------ properties
\* mutant: the height is taken without abs
M_determine_image_properties_signed_height(header, color_table, p) ==
    [width |-> ToU32(Abs32(header.width)),
     height |-> ToU32(header.height),
     line_padding |-> determine_line_padding(header.bits_per_pixel, header.width),
     pixel_format |->
        IF header.bits_per_pixel <= 8
        THEN (IF check_is_mono8(color_table) THEN "Mono8" ELSE "BGR8")
        ELSE IF header.bits_per_pixel = 24 THEN "BGR8"
        ELSE IF header.bits_per_pixel = 32 THEN "BGRA8"
        ELSE p.pixel_format,
     orientation |-> IF header.height < 0 THEN "top_down" ELSE "bottom_up"]

\* mutant: the line padding of the caller is kept
M_determine_image_properties_keeps_padding(header, color_table, p) ==
    [width |-> ToU32(Abs32(header.width)),
     height |-> ToU32(Abs32(header.height)),
     line_padding |-> p.line_padding,
     pixel_format |->
        IF header.bits_per_pixel <= 8
        THEN (IF check_is_mono8(color_table) THEN "Mono8" ELSE "BGR8")
        ELSE IF header.bits_per_pixel = 24 THEN "BGR8"
        ELSE IF header.bits_per_pixel = 32 THEN "BGRA8"
        ELSE p.pixel_format,
     orientation |-> IF header.height < 0 THEN "top_down" ELSE "bottom_up"]

determine_image_properties(header, color_table, p) ==
    [width |-> ToU32(Abs32(header.width)),
     height |-> ToU32(Abs32(header.height)),
     line_padding |-> determine_line_padding(header.bits_per_pixel, header.width),
     pixel_format |->
        IF header.bits_per_pixel <= 8
        THEN (IF check_is_mono8(color_table) THEN "Mono8" ELSE "BGR8")
        ELSE IF header.bits_per_pixel = 24 THEN "BGR8"
        ELSE IF header.bits_per_pixel = 32 THEN "BGRA8"
        ELSE p.pixel_format,
     orientation |-> IF header.height < 0 THEN "top_down" ELSE "bottom_up"]

\* load_image_properties, given the results hd of the header and ct of the
\* colour table: the properties are determined, or cleared on an error
properties_determined(hd, ct, p) ==
    [result |-> ct.result, header |-> hd.header, color_table |-> ct.color_table,
     s |-> ct.s,
     props |-> IF ct.result = "ok"
               THEN determine_image_properties(hd.header, ct.color_table, p)
               ELSE DefaultProps]

\* load_image_properties, given the result hd of the header: the colour table
\* is loaded if the header is accepted and has 8 bit per pixel
header_loaded(f, hd, p, fault) ==
    properties_determined(hd,
        IF hd.result = "ok" /\ hd.header.bits_per_pixel = 8
        THEN load_color_table(f, hd.s, hd.header, fault)
        ELSE [result |-> hd.result, color_table |-> << >>, s |-> hd.s],
        p)

\* mutant: the branch of the stream that is not open assigns no result, so
\* the default-constructed one is returned
M_load_image_properties_unassigned(f, p, fault) ==
    header_loaded(f,
        IF ~f.exists
        THEN [result |-> "invalid", header |-> ZeroHeader, s |-> OpenStream]
        ELSE load_and_check_header(f, OpenStream, fault),
        p, fault)

\* load_image_properties on the stream of file f (NoFile: the stream is not
\* open): [result, header, color_table, props, s]
load_image_properties(f, p, fault) ==
    header_loaded(f,
        IF ~f.exists
        THEN [result |-> "file_not_found", header |-> ZeroHeader, s |-> OpenStream]
        ELSE load_and_check_header(f, OpenStream, fault),
        p, fault)

\* ------------------------------------------------------------ the caller's buffer
\* mutant: a store also clears the byte behind the data
M_BufStore_one_more(buf, off, data) ==
    [i \in 1 .. Len(buf) |->
        IF i - 1 >= off /\ i - 1 < off + Len(data) THEN data[i - off]
        ELSE IF i - 1 = off + Len(data) THEN 0
        ELSE buf[i]]

\* The buffer is the sequence of the BufLen bytes the caller allocated; byte
\* offset k of the code is element k + 1. A store behind the allocation is
\* undefined behaviour: the model drops it, and the access record (hi) shows it.
BufStore(buf, off, data) ==
    [i \in 1 .. Len(buf) |->
        IF i - 1 >= off /\ i - 1 < off + Len(data) THEN data[i - off] ELSE buf[i]]

\* n bytes from byte offset off; a byte behind the allocation is Poison
BufFetch(buf, off, n) ==
    [i \in 1 .. n |-> IF off + i <= Len(buf) THEN buf[off + i] ELSE Poison]

\* hi: one more than the highest byte offset of the buffer accessed so far
Touch(hi, off, n) == IF n = 0 THEN hi ELSE Max(hi, off + n)

\* color_table[index]: an index behind the table is undefined behaviour
TableAt(color_table, index) ==
    IF index \in 0 .. Len(color_table) - 1
    THEN color_table[index + 1]
    ELSE [b |-> Poison, g |-> Poison, r |-> Poison, reserved |-> Poison]

\* ------------------------------------------------------------ pixel transfer, decode
\* mutant: the row of the file is never mirrored
M_row_offset_never_mirrored(orientation, orientation_in_file, height, line, stride_in_buffer) ==
    ToSize(ToSize(line) * stride_in_buffer)

\* p_target - buffer for file row `line`: the row itself when the buffer's
\* orientation is the file's, the mirrored row otherwise.
row_offset(orientation, orientation_in_file, height, line, stride_in_buffer) ==
    IF orientation = orientation_in_file
    THEN ToSize(ToSize(line) * stride_in_buffer)
    ELSE ToSize(ToU32(height - line - 1) * stride_in_buffer)

\* the Mono8 branch's loop over the columns: *p_target = color_table[*p_target].b
remap_row(buf, off, columns, color_table) ==
    [i \in 1 .. Len(buf) |->
        IF i - 1 >= off /\ i - 1 < off + columns
        THEN TableAt(color_table, buf[i]).b
        ELSE buf[i]]

\* mutant: the channels are stored as r, g, b
M_expand_row_rgb(scratch, columns, color_table) ==
    [k \in 1 .. 3 * columns |->
        LET entry == TableAt(color_table, scratch[((k - 1) \div 3) + 1])
            ch == (k - 1) % 3
        IN  IF ch = 0 THEN entry.r ELSE IF ch = 1 THEN entry.g ELSE entry.b]

\* the indexed branch's loop over the columns: b, g, r of the entry of each index
expand_row(scratch, columns, color_table) ==
    [k \in 1 .. 3 * columns |->
        LET entry == TableAt(color_table, scratch[((k - 1) \div 3) + 1])
            ch == (k - 1) % 3
        IN  IF ch = 0 THEN entry.b ELSE IF ch = 1 THEN entry.g ELSE entry.r]

\* The three row loops of load (into buffer), from row `line` on. mode is the
\* branch taken: "direct" (more than 8 bit per pixel to BGR8/BGRA8), "mono8",
\* "indexed" (8 bit per pixel to BGR8). st = [buf, s, result, hi].
RECURSIVE load_rows(_, _, _, _, _, _, _, _, _)

\* The rest of a row of the direct and Mono8 branches, given the buffer st1
\* with the row in it and the stream sk after the seek over the file's padding.
row_stored(mode, f, header, color_table, p, orientation_in_file, fault, line, st1, sk) ==
    IF ~sk.good
    THEN [st1 EXCEPT !.s = sk, !.result = "file_write_error"]
    ELSE load_rows(mode, f, header, color_table, p, orientation_in_file, fault, line + 1,
                   [st1 EXCEPT !.s = sk])

\* A row of the direct and Mono8 branches, given what the read into the
\* buffer at offset off returned.
row_read(mode, f, header, color_table, p, orientation_in_file, fault, line, st, off, rd) ==
    LET line_padding_in_file == determine_line_padding(header.bits_per_pixel, header.width)
    IN  IF ~rd.s.good
        THEN [st EXCEPT !.s = rd.s, !.buf = BufStore(st.buf, off, rd.data),
                        !.hi = Touch(st.hi, off, Len(rd.data)),
                        !.result = "file_read_error"]
        ELSE row_stored(mode, f, header, color_table, p, orientation_in_file, fault, line,
                 [st EXCEPT !.buf = IF mode = "mono8" /\ ~check_is_linear_mono8(color_table)
                                    THEN remap_row(BufStore(st.buf, off, rd.data), off,
                                                   Abs32(header.width), color_table)
                                    ELSE BufStore(st.buf, off, rd.data),
                            !.hi = Touch(st.hi, off, Len(rd.data))],
                 IF line_padding_in_file # 0
                 THEN StreamSeek(rd.s, rd.s.pos + line_padding_in_file, "padding", fault)
                 ELSE rd.s)

\* A row of the indexed branch, given what the read into stride_buffer returned.
indexed_row_read(mode, f, header, color_table, p, orientation_in_file, fault, line, st, off, rd) ==
    IF Len(rd.data) # determine_stride(header.bits_per_pixel, header.width)
    THEN [st EXCEPT !.s = rd.s, !.result = "file_read_error"]
    ELSE load_rows(mode, f, header, color_table, p, orientation_in_file, fault, line + 1,
                   [st EXCEPT !.s = rd.s,
                              !.buf = BufStore(st.buf, off,
                                               expand_row(rd.data, Abs32(header.width),
                                                          color_table)),
                              !.hi = Touch(st.hi, off, 3 * Abs32(header.width))])

load_rows(mode, f, header, color_table, p, orientation_in_file, fault, line, st) ==
    LET stride_in_file == determine_stride(header.bits_per_pixel, header.width)
        line_padding_in_file == determine_line_padding(header.bits_per_pixel, header.width)
        lines == IF mode = "direct" THEN p.height ELSE Abs32(header.height)
        off == row_offset(p.orientation, orientation_in_file, p.height, line,
                          determine_stride_props(p))
    IN  IF line >= lines THEN st
        ELSE IF mode = "indexed"
        THEN indexed_row_read(mode, f, header, color_table, p, orientation_in_file, fault,
                              line, st, off,
                              StreamRead(f, st.s, stride_in_file, "row", fault))
        ELSE row_read(mode, f, header, color_table, p, orientation_in_file, fault,
                      line, st, off,
                      StreamRead(f, st.s, stride_in_file - line_padding_in_file, "row", fault))

\* What a call leaves behind: result, the caller's props and buffer, the file,
\* io = the open attempted (if any) and the stream operations attempted, in
\* order, and hi, the extent of the buffer accessed.
Outcome(result, p, buf, f, io, hi) ==
    [result |-> result, props |-> p, buf |-> buf, file |-> f, io |-> io, hi |-> hi]

OpenEv(mode, ok) == Ev("open", mode, ok)

\* ------------------------------------------------------------ load (properties only)
\* the properties-only load, given what load_image_properties returned
props_loaded(f, lp) ==
    Outcome(lp.result, lp.props, << >>, f, << OpenEv("read", f.exists) >> \o lp.s.log, 0)

load_props(filename_null, f, p, fault) ==
    IF filename_null
    THEN Outcome("null_argument", p, << >>, f, << >>, 0)
    ELSE props_loaded(f, load_image_properties(f, p, fault))

\* ------------------------------------------------------------ load (into buffer)
transfer_mode(header, p) ==
    IF header.bits_per_pixel > 8 /\ p.pixel_format \in {"BGR8", "BGRA8"} THEN "direct"
    ELSE IF p.pixel_format = "Mono8" THEN "mono8"
    ELSE IF p.pixel_format = "BGR8" /\ header.bits_per_pixel = 8 THEN "indexed"
    ELSE "none"

\* mutant: the forced orientation is checked before the pointers
M_load_arguments_orientation_first(filename_null, buffer_null, force_orientation, p) ==
    IF force_orientation /\ p.orientation = "invalid" THEN "invalid_argument"
    ELSE IF buffer_null \/ filename_null THEN "null_argument"
    ELSE "ok"

\* The checks of the arguments, before the file is opened: "ok" when they pass.
load_arguments(filename_null, buffer_null, force_orientation, p) ==
    IF buffer_null \/ filename_null THEN "null_argument"
    ELSE IF force_orientation /\ p.orientation = "invalid" THEN "invalid_argument"
    ELSE "ok"

\* mutant: the padding of the file is kept though another is forced
M_forced_props_file_padding(file_props, suggested_line_padding, suggested_orientation, force_line_padding, force_orientation) ==
    [file_props EXCEPT
        !.orientation = IF force_orientation THEN suggested_orientation ELSE @]

\* mutant: the orientation is forced only together with the padding
M_forced_props_flags_together(file_props, suggested_line_padding, suggested_orientation, force_line_padding, force_orientation) ==
    [file_props EXCEPT
        !.line_padding = IF force_line_padding THEN suggested_line_padding ELSE @,
        !.orientation = IF force_orientation /\ force_line_padding
                        THEN suggested_orientation ELSE @]

\* The properties of the file with the layout the caller forces.
forced_props(file_props, suggested_line_padding, suggested_orientation, force_line_padding, force_orientation) ==
    [file_props EXCEPT
        !.line_padding = IF force_line_padding THEN suggested_line_padding ELSE @,
        !.orientation = IF force_orientation THEN suggested_orientation ELSE @]

\* load (into buffer), given the state st the row loop ended in
rows_loaded(f, p1, st) ==
    Outcome(st.result, p1, st.buf, f, << OpenEv("read", f.exists) >> \o st.s.log, st.hi)

\* load (into buffer), given the stream s1 after the seek to the pixel data
pixel_data_sought(f, buf, lp, p1, s1, fault) ==
    IF ~s1.good
    THEN Outcome("file_read_error", p1, buf, f, << OpenEv("read", f.exists) >> \o s1.log, 0)
    ELSE IF transfer_mode(lp.header, p1) = "none"
    THEN Outcome("unsupported_bit_per_pixel", p1, buf, f,
                 << OpenEv("read", f.exists) >> \o s1.log, 0)
    ELSE rows_loaded(f, p1,
             load_rows(transfer_mode(lp.header, p1), f, lp.header, lp.color_table, p1,
                       lp.props.orientation, fault, 0,
                       [buf |-> buf, s |-> s1, result |-> "ok", hi |-> 0]))

\* load (into buffer), given the properties p1 of the buffer: the file's with
\* the layout the caller forces
layout_forced(f, buf, buffersize, lp, p1, fault) ==
    LET stride_in_buffer == determine_stride_props(p1)
        image_size_in_buffer == ToSize(stride_in_buffer * ToSize(Abs32(lp.header.height)))
    IN  IF image_size_in_buffer > buffersize
        THEN Outcome("buffer_too_small", p1, buf, f,
                     << OpenEv("read", f.exists) >> \o lp.s.log, 0)
        ELSE pixel_data_sought(f, buf, lp, p1,
                               StreamSeek(lp.s, lp.header.offset, "pixel_data", fault), fault)

\* load (into buffer), given what load_image_properties returned
properties_loaded(f, buf, buffersize, p, force_line_padding, force_orientation, fault, lp) ==
    IF lp.result # "ok"
    THEN Outcome(lp.result, lp.props, buf, f, << OpenEv("read", f.exists) >> \o lp.s.log, 0)
    ELSE layout_forced(f, buf, buffersize, lp,
                       forced_props(lp.props, p.line_padding, p.orientation,
                                    force_line_padding, force_orientation),
                       fault)

load_buffer(filename_null, f, buffer_null, buf, buffersize, p, force_line_padding, force_orientation, fault) ==
    IF load_arguments(filename_null, buffer_null, force_orientation, p) # "ok"
    THEN Outcome(load_arguments(filename_null, buffer_null, force_orientation, p),
                 p, buf, f, << >>, 0)
    ELSE properties_loaded(f, buf, buffersize, p, force_line_padding, force_orientation,
                           fault, load_image_properties(f, p, fault))

\* ------------------------------------------------------------ save
\* ostream::write on the stream being written: ws = [good, log, file]; the
\* bytes go to the end of the file, the 54 bytes of the header first.
WriteOk(ws, fault) == ws.good /\ fault # Len(ws.log) + 1

WriteHeader(ws, header, fault) ==
    LET ok == WriteOk(ws, fault)
    IN  [good |-> ok, log |-> Append(ws.log, Ev("write", "header", ok)),
         file |-> IF ok THEN MkFile(HeaderSize, header, << >>) ELSE ws.file]

WriteBytes(ws, data, what, fault) ==
    LET ok == WriteOk(ws, fault)
    IN  [good |-> ok, log |-> Append(ws.log, Ev("write", what, ok)),
         file |-> IF ok THEN [ws.file EXCEPT !.body = @ \o data] ELSE ws.file]

\* mutant: the height of the header is never negated
M_save_header_height_never_negated(p, force_bottom_up) ==
    LET width == ToI32(p.width)
        height == ToI32(p.height)
        bits_per_pixel == IF p.pixel_format = "Mono8" THEN 8
                          ELSE IF p.pixel_format = "BGR8" THEN 24
                          ELSE IF p.pixel_format = "BGRA8" THEN 32
                          ELSE 0
        mono == p.pixel_format = "Mono8"
        table_bytes == IF mono THEN 256 * EntrySize ELSE 0
        image_size_in_file ==
            ToSize(determine_stride(bits_per_pixel, width) * ToSize(Abs32(height)))
    IN  [type |-> Magic,
         size |-> HeaderSize + table_bytes + image_size_in_file,
         reserved1 |-> 0, reserved2 |-> 0,
         offset |-> HeaderSize + table_bytes,
         bitmap_info_header_size |-> HeaderSize - 14,
         width |-> width, height |-> height, num_planes |-> 1,
         bits_per_pixel |-> bits_per_pixel, compression |-> 0,
         image_size_bytes |-> 0, x_resolution |-> 0, y_resolution |-> 0,
         num_colors |-> IF mono THEN 256 ELSE 0,
         important_colors |-> IF mono THEN 256 ELSE 0]

\* The header save fills in.
save_header(p, force_bottom_up) ==
    LET flip == ~force_bottom_up /\ p.orientation = "top_down"
        width == ToI32(p.width)
        height == IF flip THEN 0 - ToI32(p.height) ELSE ToI32(p.height)
        bits_per_pixel == IF p.pixel_format = "Mono8" THEN 8
                          ELSE IF p.pixel_format = "BGR8" THEN 24
                          ELSE IF p.pixel_format = "BGRA8" THEN 32
                          ELSE 0
        mono == p.pixel_format = "Mono8"
        table_bytes == IF mono THEN 256 * EntrySize ELSE 0
        image_size_in_file ==
            ToSize(determine_stride(bits_per_pixel, width) * ToSize(Abs32(height)))
    IN  [type |-> Magic,
         size |-> HeaderSize + table_bytes + image_size_in_file,
         reserved1 |-> 0, reserved2 |-> 0,
         offset |-> HeaderSize + table_bytes,
         bitmap_info_header_size |-> HeaderSize - 14,
         width |-> width, height |-> height, num_planes |-> 1,
         bits_per_pixel |-> bits_per_pixel, compression |-> 0,
         image_size_bytes |-> 0, x_resolution |-> 0, y_resolution |-> 0,
         num_colors |-> IF mono THEN 256 ELSE 0,
         important_colors |-> IF mono THEN 256 ELSE 0]

\* mutant: the reserved byte comes first in every entry
M_LinearTable_reserved_first(n) ==
    [k \in 1 .. EntrySize * n |-> IF k % 4 = 1 THEN 255 ELSE (k - 1) \div 4]

\* The bytes of the first n entries of the colour table save writes.
LinearTable(n) ==
    [k \in 1 .. EntrySize * n |-> IF k % 4 = 0 THEN 255 ELSE (k - 1) \div 4]

\* The loop writing the colour table, entered with a good stream: an entry per
\* write, until all 256 are written or a write fails.
write_color_table(ws, fault) ==
    LET first == Len(ws.log) + 1
        fails == fault \in first .. first + 255
        written == IF fails THEN fault - first ELSE 256
    IN  [good |-> ~fails,
         log |-> ws.log \o [k \in 1 .. written |-> Ev("write", "color_table", TRUE)]
                        \o (IF fails THEN << Ev("write", "color_table", FALSE) >> ELSE << >>),
         file |-> [ws.file EXCEPT !.body = @ \o LinearTable(written)]]

\* The loop writing the rows, from row `line` on. st = [ws, result, hi].
RECURSIVE save_rows(_, _, _, _, _, _, _)

\* the rest of a row, given the stream w2 after the write of the file's padding
padding_written(buf, p, header, orientation_in_file, fault, line, st1, w2) ==
    IF ~w2.good
    THEN [ws |-> w2, result |-> "file_write_error", hi |-> st1.hi]
    ELSE save_rows(buf, p, header, orientation_in_file, fault, line + 1,
                   [ws |-> w2, result |-> st1.result, hi |-> st1.hi])

\* the rest of a row, given the stream w1 after the write of its pixels
row_written(buf, p, header, orientation_in_file, fault, line, st1, w1) ==
    LET line_padding_in_file == determine_line_padding(header.bits_per_pixel, header.width)
    IN  IF ~w1.good
        THEN [ws |-> w1, result |-> "file_write_error", hi |-> st1.hi]
        ELSE padding_written(buf, p, header, orientation_in_file, fault, line, st1,
                 IF line_padding_in_file # 0 /\ line_padding_in_file <= 4
                 THEN WriteBytes(w1, [k \in 1 .. line_padding_in_file |-> 0], "padding", fault)
                 ELSE w1)

save_rows(buf, p, header, orientation_in_file, fault, line, st) ==
    LET stride_in_buffer == determine_stride_props(p)
        off == row_offset(p.orientation, orientation_in_file, p.height, line, stride_in_buffer)
        n == ToSize(stride_in_buffer - p.line_padding)
    IN  IF line >= p.height THEN st
        ELSE row_written(buf, p, header, orientation_in_file, fault, line,
                 [st EXCEPT !.hi = IF WriteOk(st.ws, fault) THEN Touch(st.hi, off, n) ELSE @],
                 WriteBytes(st.ws, BufFetch(buf, off, n), "row", fault))

\* mutant: the buffer is compared with the size of one row
M_save_arguments_one_row(filename_null, buffer_null, buffersize, p) ==
    IF buffer_null \/ filename_null THEN "null_argument"
    ELSE IF p.height = 0 \/ p.width = 0 \/ p.pixel_format = "invalid"
            \/ p.orientation = "invalid" \/ buffersize = 0
            \/ determine_stride_props(p) = 0
    THEN "invalid_argument"
    ELSE IF determine_stride_props(p) > buffersize
    THEN "buffer_too_small"
    ELSE "ok"

\* mutant: the size of the buffer is checked before the properties
M_save_arguments_size_first(filename_null, buffer_null, buffersize, p) ==
    IF buffer_null \/ filename_null THEN "null_argument"
    ELSE IF ToSize(determine_stride_props(p) * p.height) > buffersize
    THEN "buffer_too_small"
    ELSE IF p.height = 0 \/ p.width = 0 \/ p.pixel_format = "invalid"
            \/ p.orientation = "invalid" \/ buffersize = 0
            \/ determine_stride_props(p) = 0
    THEN "invalid_argument"
    ELSE "ok"

\* The checks of the arguments, before the file is opened: "ok" when they pass.
save_arguments(filename_null, buffer_null, buffersize, p) ==
    IF buffer_null \/ filename_null THEN "null_argument"
    ELSE IF p.height = 0 \/ p.width = 0 \/ p.pixel_format = "invalid"
            \/ p.orientation = "invalid" \/ buffersize = 0
            \/ determine_stride_props(p) = 0
    THEN "invalid_argument"
    ELSE IF ToSize(determine_stride_props(p) * p.height) > buffersize
    THEN "buffer_too_small"
    ELSE "ok"

\* save, given the state st the row loop ended in
rows_saved(p, buf, st) ==
    Outcome(st.result, p, buf, st.ws.file, << OpenEv("write", TRUE) >> \o st.ws.log, st.hi)

\* save, given the stream w2 after the writes of header and colour table
table_written(buf, p, header, orientation_in_file, fault, w2) ==
    rows_saved(p, buf,
        save_rows(buf, p, header, orientation_in_file, fault, 0,
                  [ws |-> w2, result |-> IF w2.good THEN "ok" ELSE "file_write_error",
                   hi |-> 0]))

\* save, given the stream w1 after the write of the header
header_written(buf, p, header, orientation_in_file, fault, w1) ==
    table_written(buf, p, header, orientation_in_file, fault,
        IF w1.good /\ p.pixel_format = "Mono8" THEN write_color_table(w1, fault) ELSE w1)

\* open_ok: whether the file system lets the file be opened for writing.
save(filename_null, f, buffer_null, buf, buffersize, p, force_bottom_up, open_ok, fault) ==
    IF save_arguments(filename_null, buffer_null, buffersize, p) # "ok"
    THEN Outcome(save_arguments(filename_null, buffer_null, buffersize, p),
                 p, buf, f, << >>, 0)
    ELSE IF ~open_ok
    THEN Outcome("file_open_for_writing_error", p, buf, f, << OpenEv("write", FALSE) >>, 0)
    ELSE header_written(buf, p, save_header(p, force_bottom_up),
             IF ~force_bottom_up /\ p.orientation = "top_down" THEN "top_down" ELSE "bottom_up",
             fault,
             WriteHeader([good |-> TRUE, log |-> << >>, file |-> EmptyFile],
                         save_header(p, force_bottom_up), fault))

\* ============================================================ the state machine
\* disk:  the file of the name the calls use (NoFile: there is none)
\* buf:   the bytes of the caller's buffer
\* props: the caller's image_properties
\* last:  the call made: the operation, its arguments, the values of props, buf
\*        and disk when it was made, and what it returned. op = "none": no
\*        call was made yet. A behaviour is one call on the world Init chose.
VARIABLES disk, buf, props, last

vars == << disk, buf, props, last >>

NoCall == [op |-> "none"]

NoArgs ==
    [filename_null |-> FALSE, buffer_null |-> FALSE, buffersize |-> 0,
     force_line_padding |-> FALSE, force_orientation |-> FALSE,
     force_bottom_up |-> TRUE, open_ok |-> TRUE, fault |-> 0]

Call(op, args, out, size) ==
    [op |-> op, args |-> args, props_in |-> props, buf_in |-> buf, disk_in |-> disk,
     result |-> out.result, io |-> out.io, hi |-> out.hi, size |-> size]

Faults == 0 .. MaxFault
\* buffer sizes: none, all of the buffer, and both sides of every multiple of 4
BufferSizes ==
    {0, BufLen} \cup { b \in 1 .. BufLen : b % 4 = 0 \/ b % 4 = 3 }

\* The arguments of a call with a buffer: a null pointer, or any buffer size;
\* the environment's faults come with the whole buffer.
BufferArgs ==
    { [NoArgs EXCEPT !.filename_null = n[1], !.buffer_null = n[2], !.buffersize = BufLen]
        : n \in {<< TRUE, FALSE >>, << FALSE, TRUE >>, << TRUE, TRUE >>} }
    \cup { [NoArgs EXCEPT !.buffersize = b] : b \in BufferSizes }
    \cup { [NoArgs EXCEPT !.buffersize = BufLen, !.fault = k] : k \in Faults }

\* The arguments of a call whose buffer has exactly the size the properties ask
\* for (as much of it as the caller's buffer holds).
ExactArgs(p) == [NoArgs EXCEPT !.buffersize = Min(compute_buffer_size(p), BufLen)]

\* size_t compute_buffer_size(image_properties&)
ComputeBufferSize ==
    /\ last.op = "none"
    /\ last' = Call("compute_buffer_size", NoArgs,
                    Outcome("invalid", props, buf, disk, << >>, 0),
                    compute_buffer_size(props))
    /\ UNCHANGED << disk, buf, props >>

\* operation_result load(filename, image_properties&)
LoadProps ==
    /\ last.op = "none"
    /\ \E filename_null \in BOOLEAN, fault \in Faults :
          LET out == load_props(filename_null, disk, props, fault)
          IN  /\ props' = out.props
              /\ last' = Call("load_props",
                              [NoArgs EXCEPT !.filename_null = filename_null,
                                             !.fault = fault],
                              out, 0)
    /\ UNCHANGED << disk, buf >>

\* operation_result load(filename, buffer, buffersize, image_properties&,
\*                       force_line_padding, force_orientation)
LoadBuffer ==
    /\ last.op = "none"
    /\ \E a \in BufferArgs, flp \in BOOLEAN, fo \in BOOLEAN :
          LET args == [a EXCEPT !.force_line_padding = flp, !.force_orientation = fo]
              out == load_buffer(args.filename_null, disk, args.buffer_null, buf,
                                 args.buffersize, props, flp, fo, args.fault)
          IN  /\ props' = out.props
              /\ buf' = out.buf
              /\ last' = Call("load_buffer", args, out, 0)
    /\ UNCHANGED disk

\* operation_result save(filename, buffer, buffersize, const image_properties&,
\*                       force_bottom_up)
Save ==
    /\ last.op = "none"
    /\ \E a \in BufferArgs \cup {ExactArgs(props)}, fbu \in BOOLEAN, open_ok \in BOOLEAN :
          LET args == [a EXCEPT !.force_bottom_up = fbu, !.open_ok = open_ok]
              out == save(args.filename_null, disk, args.buffer_null, buf,
                          args.buffersize, props, fbu, open_ok, args.fault)
          IN  /\ disk' = out.file
              /\ last' = Call("save", args, out, 0)
    /\ UNCHANGED << buf, props >>

\* ============================================================ the worlds of Init
\* The caller's buffer before the call: BufLen bytes, no two equal.
MarkedBuffer == [i \in 1 .. BufLen |-> 100 + i]
\* Another buffer of the caller, different in every byte.
OtherBuffer == [i \in 1 .. BufLen |-> 200 - i]

\* A width or height whose scaled 32 bit value has the sign bit set (above INT_MAX).
BigDim == 2 ^ (DimBits - 1) + 1

\* ---- files
\* Colour tables of 8 bit files, by name; entry i (from 0) of each.
PaletteEntry(kind, i) ==
    IF kind \in {"linear", "linear2"} THEN [b |-> i, g |-> i, r |-> i, reserved |-> 0]
    ELSE IF kind \in {"gray", "gray2"}
    THEN [b |-> 255 - i, g |-> 255 - i, r |-> 255 - i, reserved |-> 0]
    ELSE IF kind = "bent"
    THEN [b |-> IF i % 2 = 0 THEN i ELSE 255 - i, g |-> IF i % 2 = 0 THEN i ELSE 255 - i,
          r |-> IF i % 2 = 0 THEN i ELSE 255 - i, reserved |-> 0]
    ELSE [b |-> i, g |-> 255 - i, r |-> (3 * i + 1) % 256, reserved |-> 0]

\* the entries the file holds, and the colour count its header declares
PaletteLen(kind) == IF kind \in {"linear2", "gray2", "color2"} THEN 2 ELSE 256
PaletteDeclared(kind) == IF kind = "linear" THEN 0 ELSE PaletteLen(kind)

PaletteBytes(kind) ==
    [k \in 1 .. 4 * PaletteLen(kind) |->
        LET e == PaletteEntry(kind, (k - 1) \div 4)
            c == k % 4
        IN  IF c = 1 THEN e.b ELSE IF c = 2 THEN e.g ELSE IF c = 3 THEN e.r ELSE e.reserved]

\* The pixel data of a file: rows of bpp * w bytes, no two bytes of a file
\* equal modulo `range`, each followed by the padding to a multiple of 4,
\* which is marked with bytes from 250 on.
PixelData(bpp, w, rows, range) ==
    LET used == bpp * w
        stride == 4 * ((used + 3) \div 4)
    IN  [k \in 1 .. stride * rows |->
            LET row == (k - 1) \div stride
                col == (k - 1) % stride
            IN  IF col < used THEN (7 + 5 * (row * used + col)) % range
                ELSE 250 + (col - used)]

FileHeader(bits, w, h, table, gap, declared_size) ==
    [type |-> Magic, size |-> 0, reserved1 |-> 0, reserved2 |-> 0,
     offset |-> HeaderSize + 4 * table + gap,
     bitmap_info_header_size |-> 40, width |-> w, height |-> h, num_planes |-> 1,
     bits_per_pixel |-> bits, compression |-> 0, image_size_bytes |-> declared_size,
     x_resolution |-> 0, y_resolution |-> 0, num_colors |-> 0, important_colors |-> 0]

Cut(seq, n) == SubSeq(seq, 1, Len(seq) - Min(n, Len(seq)))

\* An 8 bit file with colour table `kind`, `gap` bytes between table and pixel
\* data, and the last `cut` bytes missing.
IndexedFile(kind, w, h, gap, cut) ==
    MkFile(HeaderSize,
           [FileHeader(8, w, h, PaletteLen(kind), gap, 0)
               EXCEPT !.num_colors = PaletteDeclared(kind)],
           Cut(PaletteBytes(kind) \o [k \in 1 .. gap |-> 99]
               \o PixelData(1, w, Abs32(h), PaletteLen(kind)), cut))

\* A 24 or 32 bit file.
DirectFile(bits, w, h, gap, cut, declared_size) ==
    MkFile(HeaderSize, FileHeader(bits, w, h, 0, gap, declared_size),
           Cut([k \in 1 .. gap |-> 99] \o PixelData(bits \div 8, w, Abs32(h), 256), cut))

FileWidths == {1, 2, 4}
FileHeights == {0 - 2, 1, 2}

\* Well-formed files: every row present, every index inside the colour table.
GoodFiles ==
    { IndexedFile(kind, w, h, 0, 0)
        : kind \in {"linear", "gray", "color"}, w \in FileWidths, h \in FileHeights }
    \cup { IndexedFile(kind, 2, h, 0, 0)
        : kind \in {"linear2", "gray2", "color2"}, h \in FileHeights }
    \cup { DirectFile(bits, w, h, 0, 0, 0) : bits \in {24, 32}, w \in FileWidths, h \in FileHeights }
    \cup { IndexedFile("bent", 2, h, 0, 0) : h \in FileHeights }
    \cup { IndexedFile("gray", 2, 2, 2, 0), DirectFile(24, 1, 0 - 2, 3, 0, 0),
           DirectFile(24, 2, 2, 0, 0, 16), DirectFile(32, 1, 1, 0, 0, 4) }

\* Files a load rejects: shorter than a header, a header that fails a check,
\* a colour table or rows that end too early.
BadFiles ==
    { MkFile(k, ZeroHeader, << >>) : k \in {0, 53} }
    \cup { [DirectFile(24, 2, 2, 0, 0, 0) EXCEPT !.hdr.type = 0],
           [DirectFile(24, 2, 2, 0, 0, 0) EXCEPT !.hdr.bitmap_info_header_size = 12],
           [DirectFile(24, 2, 2, 0, 0, 0) EXCEPT !.hdr.offset = 14],
           [DirectFile(24, 2, 2, 0, 0, 0) EXCEPT !.hdr.width = 0 - 2],
           [DirectFile(24, 2, 2, 0, 0, 0) EXCEPT !.hdr.bits_per_pixel = 16],
           [DirectFile(24, 2, 2, 0, 0, 0) EXCEPT !.hdr.bits_per_pixel = 12],
           [DirectFile(32, 2, 2, 0, 0, 0) EXCEPT !.hdr.compression = 3],
           [DirectFile(32, 2, 2, 0, 0, 0) EXCEPT !.hdr.num_colors = 2],
           [IndexedFile("gray", 2, 2, 0, 0) EXCEPT !.hdr.important_colors = 300],
           DirectFile(24, 2, 2, 0, 0, 12),
           IndexedFile("gray", 2, 2, 0, 8 + 1000),
           IndexedFile("gray", 2, 2, 0, 8),
           IndexedFile("gray", 2, 2, 0, 3),
           IndexedFile("color", 2, 2, 0, 1),
           IndexedFile("color", 1, 0 - 2, 0, 6),
           DirectFile(24, 2, 2, 0, 9, 0),
           DirectFile(32, 1, 0 - 2, 0, 4, 0) }

\* 8 bit files that pass every check of the header and declare two colours,
\* with index bytes of any value in the rows.
WideIndexFile(kind, w, h) ==
    MkFile(HeaderSize,
           [FileHeader(8, w, h, PaletteLen(kind), 0, 0)
               EXCEPT !.num_colors = PaletteDeclared(kind)],
           PaletteBytes(kind) \o PixelData(1, w, Abs32(h), 256))

WideIndexFiles ==
    { WideIndexFile(kind, w, h)
        : kind \in {"linear2", "gray2", "color2"}, w \in {1, 2}, h \in {0 - 2, 1} }

\* ---- the caller's properties
\* What the caller may hold before a load: the default, and values that differ
\* from every file's in width, height and pixel format.
CallerLayouts ==
    { << 0, "top_down" >>, << 0, "bottom_up" >>, << 1, "bottom_up" >>,
      << 3, "top_down" >>, << 1, "invalid" >> }
CallerProps ==
    { DefaultProps }
    \cup { [width |-> 3, height |-> 3, line_padding |-> l[1], pixel_format |-> "BGRA8",
            orientation |-> l[2]] : l \in CallerLayouts }

\* What the caller may pass to compute_buffer_size and save: zero, small and
\* sign-bit widths and heights, and paddings up to the largest size_t.
SaveDims == {0, 1, 2, BigDim}
SavePaddings == {0, 1, 2, SizeMod - 2, SizeMod - 1}
AllProps ==
    { [width |-> w, height |-> h, line_padding |-> lp, pixel_format |-> pf,
       orientation |-> o]
        : w \in SaveDims, h \in SaveDims, lp \in SavePaddings,
          pf \in PixelFormats, o \in Orientations }

\* ---- the specifications
\* compute_buffer_size on any properties
InitCompute ==
    /\ disk = NoFile
    /\ buf = MarkedBuffer
    /\ props \in AllProps
    /\ last = NoCall

SpecCompute == InitCompute /\ [][ComputeBufferSize]_vars

\* the two loads on any file
InitLoad ==
    /\ disk \in {NoFile} \cup GoodFiles \cup BadFiles
    /\ buf = MarkedBuffer
    /\ props \in CallerProps
    /\ last = NoCall

NextLoad == LoadProps \/ LoadBuffer

SpecLoad == InitLoad /\ [][NextLoad]_vars

\* save of any properties, on a name that is free or taken
InitSave ==
    /\ disk \in {NoFile, DirectFile(32, 1, 1, 0, 0, 0)}
    /\ buf = MarkedBuffer
    /\ props \in AllProps
    /\ last = NoCall

SpecSave == InitSave /\ [][Save]_vars

\* the properties-only load on headers that fail no, one or two checks
HeaderFixes ==
    { << "type", 0 >>, << "bitmap_info_header_size", 39 >>, << "offset", 53 >>,
      << "width", 0 >>, << "width", 0 - 1 >>, << "height", 0 >>,
      << "bits_per_pixel", 1 >>, << "bits_per_pixel", 4 >>, << "bits_per_pixel", 16 >>,
      << "bits_per_pixel", 12 >>, << "compression", 1 >>,
      << "num_colors", 256 >>, << "num_colors", 257 >>,
      << "important_colors", 256 >>, << "important_colors", 257 >>,
      << "image_size_bytes", 4 >>, << "image_size_bytes", 5 >> }

HeaderFiles ==
    LET base == { FileHeader(bits, 1, h, 0, 0, 0) : bits \in {8, 24, 32}, h \in {0 - 1, 1} }
        one == base \cup { [h EXCEPT ![x[1]] = x[2]] : h \in base, x \in HeaderFixes }
        two == one \cup { [h EXCEPT ![x[1]] = x[2]] : h \in one, x \in HeaderFixes }
    IN  { MkFile(HeaderSize, h,
                 IF h.bits_per_pixel = 8 THEN [k \in 1 .. 256 * EntrySize |-> 0] ELSE << >>)
            : h \in two }

InitHeader ==
    /\ disk \in HeaderFiles \cup { MkFile(k, ZeroHeader, << >>) : k \in {0, 53} }
    /\ buf = MarkedBuffer
    /\ props \in { DefaultProps }
    /\ last = NoCall

SpecHeader == InitHeader /\ [][LoadProps]_vars

\* every operation, on a few worlds
Init ==
    /\ disk \in {NoFile, DirectFile(24, 2, 0 - 2, 0, 0, 0), IndexedFile("gray2", 1, 2, 0, 0),
                 IndexedFile("color", 2, 1, 0, 0),
                 [DirectFile(24, 2, 2, 0, 0, 0) EXCEPT !.hdr.bits_per_pixel = 16],
                 [DirectFile(24, 2, 2, 0, 0, 0) EXCEPT !.hdr.bits_per_pixel = 4],
                 [DirectFile(24, 2, 2, 0, 0, 0) EXCEPT !.hdr.bits_per_pixel = 12]}
    /\ buf = MarkedBuffer
    /\ props \in { DefaultProps,
                   [width |-> 2, height |-> 2, line_padding |-> 1,
                    pixel_format |-> "BGR8", orientation |-> "top_down"],
                   [width |-> 1, height |-> 2, line_padding |-> 0,
                    pixel_format |-> "Mono8", orientation |-> "invalid"] }
    /\ last = NoCall

Next == ComputeBufferSize \/ LoadProps \/ LoadBuffer \/ Save

Spec == Init /\ [][Next]_vars

\* the load into a buffer on 8 bit files with colour tables of any length
InitPalette ==
    /\ disk \in WideIndexFiles
                \cup { IndexedFile(kind, 2, 2, 0, 0) : kind \in {"gray", "color", "gray2"} }
    /\ buf = MarkedBuffer
    /\ props \in CallerProps
    /\ last = NoCall

SpecPalette == InitPalette /\ [][LoadBuffer]_vars

\* ---- chains of calls
\* A chain re-encodes the file: a load into the buffer with padding and
\* orientation forced, then a save of the buffer as it is laid out, and so on,
\* as long as the calls return ok. last.origin is the file the chain started
\* from, last.steps the number of load-save pairs done.
ChainPaddings == {0, 1, 3}

ChainLoad ==
    /\ last.op \in {"chain_start", "chain_save"}
    /\ last.result = "ok"
    /\ last.steps < MaxSteps
    /\ \E padding \in ChainPaddings, o \in {"top_down", "bottom_up"} :
          LET out == load_buffer(FALSE, disk, FALSE, buf, BufLen,
                                 [props EXCEPT !.line_padding = padding, !.orientation = o],
                                 TRUE, TRUE, 0)
          IN  /\ props' = out.props
              /\ buf' = out.buf
              /\ last' = [last EXCEPT !.op = "chain_load", !.result = out.result]
    /\ UNCHANGED disk

ChainSave ==
    /\ last.op = "chain_load"
    /\ last.result = "ok"
    /\ LET out == save(FALSE, disk, FALSE, buf, BufLen, props, FALSE, TRUE, 0)
       IN  /\ disk' = out.file
           /\ last' = [last EXCEPT !.op = "chain_save", !.result = out.result,
                                   !.steps = @ + 1]
    /\ UNCHANGED << buf, props >>

InitChain ==
    /\ disk \in GoodFiles
    /\ buf = MarkedBuffer
    /\ props = DefaultProps
    /\ last = [op |-> "chain_start", result |-> "ok", steps |-> 0, origin |-> disk]

NextChain == ChainLoad \/ ChainSave

SpecChain == InitChain /\ [][NextChain]_vars

\* ============================================================ claims
\* ---- C1
\* C1: compute_buffer_size(P) is (width x bytes per pixel + line_padding) x
\* height, in the arithmetic of size_t, with Mono8 = 1, BGR8 = 3, BGRA8 = 4
\* bytes per pixel, whenever width > 0, height > 0 and the pixel format is
\* supported; it is 0 when width = 0, height = 0 or the pixel format is
\* invalid; and it is the same for every orientation, invalid included.
C1_BufferSize ==
    last.op = "compute_buffer_size" =>
        LET P == last.props_in
            bpp == CASE P.pixel_format = "Mono8" -> 1
                     [] P.pixel_format = "BGR8" -> 3
                     [] P.pixel_format = "BGRA8" -> 4
                     [] OTHER -> 0
        IN  /\ (P.width > 0 /\ P.height > 0 /\ P.pixel_format # "invalid")
                  => last.size = ((P.width * bpp + P.line_padding) * P.height) % SizeMod
            /\ (P.width = 0 \/ P.height = 0 \/ P.pixel_format = "invalid")
                  => last.size = 0
            /\ \A o \in Orientations :
                  compute_buffer_size([P EXCEPT !.orientation = o]) = last.size

C1_Witness ==
    /\ last.op = "compute_buffer_size"
    /\ last.props_in.orientation = "invalid"
    /\ last.props_in.line_padding = 2
    /\ last.props_in.pixel_format = "BGR8"
    /\ last.size = 16

\* ---- C2
\* The ten checks of the header, as the specification numbers them: whether
\* header h fails check k, and the error of check k.
C2_Fails(k, h) ==
    CASE k = 1 -> h.type # 19778
      [] k = 2 -> h.bitmap_info_header_size < 40
      [] k = 3 -> h.offset < 54
      [] k = 4 -> h.height = 0 \/ h.width <= 0
      [] k = 5 -> h.bits_per_pixel \notin {1, 4, 8, 16, 24, 32}
      [] k = 6 -> h.compression # 0
      [] k = 7 -> h.bits_per_pixel \notin {8, 24, 32}
      [] k = 8 -> h.bits_per_pixel \in {24, 32}
                  /\ (h.num_colors # 0 \/ h.important_colors # 0)
      [] k = 9 -> h.bits_per_pixel = 8
                  /\ (h.num_colors > 256 \/ h.important_colors > 256)
      [] k = 10 -> LET row == (h.bits_per_pixel \div 8) * h.width
                       file_stride == 4 * ((row + 3) \div 4)
                       rows == IF h.height < 0 THEN 0 - h.height ELSE h.height
                   IN  h.image_size_bytes # 0 /\ h.image_size_bytes # file_stride * rows

C2_Error(k) ==
    CASE k = 1 -> "not_a_bmp_file"
      [] k \in {2, 3, 4, 5, 10} -> "corrupt"
      [] k = 6 -> "unsupported_compression"
      [] k = 7 -> "unsupported_bit_per_pixel"
      [] k = 8 -> "unsupported_use_of_color_table"
      [] k = 9 -> "too_large_color_table"

C2_Failing(h) == { k \in 1 .. 10 : C2_Fails(k, h) }

C2_First(h) == CHOOSE k \in C2_Failing(h) : \A j \in C2_Failing(h) : k <= j

\* C2: a load of an existing file returns not_a_bmp_file when fewer than 54
\* bytes of header can be read; otherwise the error of the lowest-numbered of
\* the ten checks the header fails; and ok only when the header passes all ten.
C2_HeaderOrder ==
    (last.op = "load_props" /\ ~last.args.filename_null /\ last.disk_in.exists) =>
        LET f == last.disk_in
        IN  IF f.hlen < 54 \/ last.args.fault = 1
            THEN last.result = "not_a_bmp_file"
            ELSE IF C2_Failing(f.hdr) # {}
            THEN last.result = C2_Error(C2_First(f.hdr))
            ELSE /\ last.result \in {"ok", "file_read_error"}
                 /\ last.args.fault = 0 => last.result = "ok"

\* a header that fails a check and a later one with another error, the earlier decides
C2_Witness ==
    /\ last.op = "load_props"
    /\ ~last.args.filename_null
    /\ last.disk_in.exists
    /\ last.disk_in.hlen = 54
    /\ last.args.fault = 0
    /\ C2_Failing(last.disk_in.hdr) = {5, 6, 7}
    /\ last.result = "corrupt"

\* ---- C3
\* Bytes per pixel of a pixel format, as the specification lists them.
ClaimBpp(pf) ==
    CASE pf = "Mono8" -> 1 [] pf = "BGR8" -> 3 [] pf = "BGRA8" -> 4 [] OTHER -> 0

\* Whether byte i (from 1) of a buffer laid out by P is a byte of a pixel.
ClaimPixelByte(P, i) ==
    LET row == P.width * ClaimBpp(P.pixel_format)
        stride == (row + P.line_padding) % SizeMod
    IN  stride > 0 /\ (i - 1) % stride < row

\* A destination buffer that agrees with B in the padding bytes, as two
\* zero-initialised buffers do, and differs from B in every byte of a pixel.
C3_Dest(P, B) == [i \in 1 .. Len(B) |-> IF ClaimPixelByte(P, i) THEN 255 - B[i] ELSE B[i]]

\* C3: after save(P, B) has returned ok for a buffer B of compute_buffer_size(P)
\* bytes, a load of the saved file into a buffer of the same size, with P's
\* line_padding and orientation forced, returns ok and leaves the buffer equal
\* to B in all compute_buffer_size(P) bytes.
C3_RoundTrip ==
    (/\ last.op = "save"
     /\ last.result = "ok"
     /\ last.args.buffersize = compute_buffer_size(props)) =>
        LET n == last.args.buffersize
            back == load_buffer(FALSE, disk, FALSE, C3_Dest(props, buf), n, props,
                                TRUE, TRUE, 0)
        IN  /\ back.result = "ok"
            /\ \A i \in 1 .. n : back.buf[i] = buf[i]

\* The round trip on the properties whose width and height fit a signed 32 bit
\* integer and whose stride does not wrap.
C3_RoundTripInRange ==
    (/\ props.width <= I32Max /\ props.height <= I32Max
     /\ props.width * ClaimBpp(props.pixel_format) + props.line_padding < SizeMod)
        => C3_RoundTrip

\* ---- C4
\* C4: whenever the properties-only load returns anything but ok, a null path
\* included, the caller's properties are left as the all-invalid default.
C4_PropsReset ==
    (last.op = "load_props" /\ last.result # "ok") => props = DefaultProps

\* The reset on every failure of a load that was given a path.
C4_PropsResetWithPath ==
    (last.op = "load_props" /\ last.result # "ok" /\ ~last.args.filename_null)
        => props = DefaultProps

\* ---- C5
\* C5: whenever the load into a buffer returns anything but ok, the caller's
\* properties are left as the all-invalid default.
C5_PropsAllInvalid ==
    (last.op = "load_buffer" /\ last.result # "ok") => props = DefaultProps

\* The reset on the failures of the header and the colour table.
C5_PropsResetOnFileErrors ==
    (/\ last.op = "load_buffer"
     /\ last.result \notin {"ok", "null_argument", "invalid_argument", "buffer_too_small",
                             "file_read_error", "file_write_error"})
        => props = DefaultProps

\* ---- C6
\* Whether the call had a null pointer among its arguments.
C6_NullGiven ==
    \/ last.args.filename_null
    \/ last.op \in {"load_buffer", "save"} /\ last.args.buffer_null

\* Whether the call had properties or flags that the operation rejects.
C6_InvalidGiven ==
    \/ /\ last.op = "load_buffer"
       /\ last.args.force_orientation /\ last.props_in.orientation = "invalid"
    \/ /\ last.op = "save"
       /\ \/ last.props_in.width = 0 \/ last.props_in.height = 0
          \/ last.props_in.pixel_format = "invalid"
          \/ last.props_in.orientation = "invalid"

\* C6: a load or save given a null filename or buffer returns null_argument,
\* also when its properties or flags are invalid as well; given invalid
\* properties or flags and no null pointer it returns invalid_argument; and a
\* call that returns either of the two has opened no file and has left the
\* file as it was, neither created nor truncated.
C6_ArgumentsFirst ==
    last.op \in {"load_props", "load_buffer", "save"} =>
        /\ C6_NullGiven => last.result = "null_argument"
        /\ (C6_InvalidGiven /\ ~C6_NullGiven) => last.result = "invalid_argument"
        /\ last.result \in {"null_argument", "invalid_argument"}
              => (last.io = << >> /\ disk = last.disk_in)

C6_Witness ==
    /\ last.op = "load_buffer"
    /\ last.args.filename_null
    /\ last.args.force_orientation /\ last.props_in.orientation = "invalid"
    /\ last.result = "null_argument"
    /\ last.disk_in.exists /\ disk = last.disk_in

\* ---- C7
\* The stride of a buffer laid out by P, in the arithmetic of size_t.
ClaimStride(P) == (P.width * ClaimBpp(P.pixel_format) + P.line_padding) % SizeMod

\* Properties that are fully valid for save.
ClaimFullyValid(P) ==
    /\ P.width > 0 /\ P.height > 0
    /\ P.pixel_format # "invalid" /\ P.orientation # "invalid"
    /\ ClaimStride(P) # 0

\* A save with path and buffer, fully valid properties and a buffer smaller
\* than compute_buffer_size of the properties.
C7_SmallBuffer ==
    /\ last.op = "save"
    /\ ~last.args.filename_null /\ ~last.args.buffer_null
    /\ ClaimFullyValid(last.props_in)
    /\ last.args.buffersize < compute_buffer_size(last.props_in)

C7_Rejected ==
    /\ last.result = "buffer_too_small"
    /\ last.io = << >>
    /\ disk = last.disk_in

\* C7 as stated: save with path, buffer and fully valid properties rejects
\* every buffer size below compute_buffer_size(props) with buffer_too_small,
\* before any I/O: the file is neither created nor truncated.
C7_EverySmallerSize == C7_SmallBuffer => C7_Rejected

\* C7: the same for every buffer size below compute_buffer_size(props) other
\* than 0.
C7_EverySmallerNonZeroSize ==
    (C7_SmallBuffer /\ last.args.buffersize # 0) => C7_Rejected

C7_Witness ==
    /\ C7_SmallBuffer
    /\ last.args.buffersize > 0
    /\ last.props_in.height = 2
    /\ last.args.buffersize >= ClaimStride(last.props_in)
    /\ last.disk_in.exists
    /\ C7_Rejected

\* ---- C8
\* What makes save return invalid_argument.
C8_Invalid ==
    LET P == last.props_in
    IN  \/ P.height = 0 \/ P.width = 0
        \/ P.pixel_format = "invalid" \/ P.orientation = "invalid"
        \/ last.args.buffersize = 0
        \/ ClaimStride(P) = 0

C8_TooSmall ==
    (ClaimStride(last.props_in) * last.props_in.height) % SizeMod > last.args.buffersize

\* C8: save with path and buffer returns invalid_argument, without opening the
\* file, whenever height or width is 0, the pixel format or the orientation
\* is invalid, the buffer size is 0 or the stride of the buffer is 0; if none
\* of these holds and the buffer is too small it returns buffer_too_small;
\* and it reports that the file cannot be opened only if neither holds.
C8_InvalidArgument ==
    (last.op = "save" /\ ~last.args.filename_null /\ ~last.args.buffer_null) =>
        /\ C8_Invalid => (last.result = "invalid_argument" /\ last.io = << >>
                          /\ disk = last.disk_in)
        /\ (~C8_Invalid /\ C8_TooSmall) => last.result = "buffer_too_small"
        /\ last.result = "file_open_for_writing_error"
              => (~C8_Invalid /\ ~C8_TooSmall /\ ~last.args.open_ok)
        /\ (~C8_Invalid /\ ~C8_TooSmall /\ ~last.args.open_ok)
              => last.result = "file_open_for_writing_error"

C8_Witness ==
    /\ last.op = "save" /\ ~last.args.filename_null /\ ~last.args.buffer_null
    /\ last.props_in.orientation = "invalid"
    /\ last.args.buffersize > 0
    /\ C8_TooSmall
    /\ ~last.args.open_ok
    /\ last.result = "invalid_argument"

\* save rejects a stride of 0 though width and pixel format are valid
C8_WitnessStride ==
    /\ last.op = "save"
    /\ last.props_in.width > 0 /\ last.props_in.pixel_format # "invalid"
    /\ last.args.buffersize > 0
    /\ ClaimStride(last.props_in) = 0
    /\ last.result = "invalid_argument"

\* ---- C9
\* The properties of the file of the call, as the properties-only load reports
\* them when nothing fails underneath.
ClaimFile == load_props(FALSE, last.disk_in, DefaultProps, 0)

\* A load into a buffer whose arguments pass the checks.
ClaimLoadAttempted ==
    /\ last.op = "load_buffer"
    /\ ~last.args.filename_null /\ ~last.args.buffer_null
    /\ ~(last.args.force_orientation /\ last.props_in.orientation = "invalid")

\* buffer stride x height, with the forced padding if one is forced
C9_Required ==
    LET F == ClaimFile.props
        padding == IF last.args.force_line_padding THEN last.props_in.line_padding
                   ELSE F.line_padding
    IN  (F.width * ClaimBpp(F.pixel_format) + padding) * F.height

C9_RowRead == \E k \in 1 .. Len(last.io) : last.io[k].what = "row"

\* C9: a load into a buffer of a file whose header and colour table are
\* accepted returns buffer_too_small when buffer stride x height exceeds the
\* buffer size, and only then; when it does, no row has been read and the
\* buffer is as it was before the call.
C9_SizeCheckedFirst ==
    ClaimLoadAttempted =>
        /\ (last.args.fault = 0 /\ ClaimFile.result = "ok"
                /\ C9_Required > last.args.buffersize)
              => last.result = "buffer_too_small"
        /\ last.result = "buffer_too_small"
              => /\ ClaimFile.result = "ok" /\ C9_Required > last.args.buffersize
                 /\ ~C9_RowRead
                 /\ last.hi = 0
                 /\ buf = last.buf_in

\* the forced padding alone makes the buffer too small
C9_Witness ==
    /\ ClaimLoadAttempted
    /\ last.args.force_line_padding
    /\ last.result = "buffer_too_small"
    /\ last.args.buffersize >=
          (ClaimFile.props.width * ClaimBpp(ClaimFile.props.pixel_format)
             + ClaimFile.props.line_padding) * ClaimFile.props.height
    /\ buf = last.buf_in

\* ---- C10
\* Row r (from 0) of a buffer laid out by P: the bytes of its pixels.
ClaimRow(b, P, r) ==
    SubSeq(b, r * ClaimStride(P) + 1,
           r * ClaimStride(P) + P.width * ClaimBpp(P.pixel_format))

\* A load into a buffer that returned ok with nothing failing underneath.
C10_Loaded == ClaimLoadAttempted /\ last.args.fault = 0 /\ last.result = "ok"

C10_Flipped ==
    /\ C10_Loaded
    /\ last.args.force_orientation
    /\ last.props_in.orientation # ClaimFile.props.orientation

\* the load of the same file into the same buffer, with the same padding,
\* that leaves the orientation to the file
C10_Plain ==
    load_buffer(FALSE, last.disk_in, FALSE, last.buf_in, last.args.buffersize,
                last.props_in, last.args.force_line_padding, FALSE, 0)

\* the row of the buffer that row i of the file is stored in
C10_RowOf(i) ==
    row_offset(props.orientation, ClaimFile.props.orientation, props.height, i,
               ClaimStride(props)) \div ClaimStride(props)

\* The loaded buffer, saved with orientation as it is or bottom up, and loaded
\* again with the orientation of the first file forced.
C10_Back(force_bottom_up) ==
    LET saved == save(FALSE, NoFile, FALSE, buf, last.args.buffersize, props,
                      force_bottom_up, TRUE, 0)
    IN  [saved |-> saved.result,
         load |-> load_buffer(FALSE, saved.file, FALSE, last.buf_in, last.args.buffersize,
                              [props EXCEPT !.orientation = ClaimFile.props.orientation],
                              TRUE, TRUE, 0)]

\* C10: after a load into a buffer that returned ok, row i of the file is in
\* row i of the buffer when the orientation of the buffer is the file's and in
\* row height-1-i otherwise, and these rows are all the rows of the buffer;
\* when the opposite of the file's orientation was forced, row r of the
\* buffer is row height-1-r of the load that leaves the orientation to the
\* file, for every r; and saving the flipped buffer and loading it flipped
\* again gives the buffer of that load.
C10_VerticalFlip ==
    /\ C10_Loaded =>
          LET rows == 0 .. props.height - 1
          IN  /\ \A i \in rows :
                    C10_RowOf(i) = IF props.orientation = ClaimFile.props.orientation
                                   THEN i ELSE props.height - 1 - i
              /\ { C10_RowOf(i) : i \in rows } = rows
    /\ C10_Flipped =>
          /\ C10_Plain.result = "ok"
          /\ \A r \in 0 .. props.height - 1 :
                ClaimRow(buf, props, r) = ClaimRow(C10_Plain.buf, props, props.height - 1 - r)
          /\ \A fbu \in BOOLEAN :
                /\ C10_Back(fbu).saved = "ok"
                /\ C10_Back(fbu).load.result = "ok"
                /\ C10_Back(fbu).load.buf = C10_Plain.buf

\* a flipped load of two rows that differ, with padding in the buffer
C10_Witness ==
    /\ C10_Flipped
    /\ props.height = 2
    /\ props.line_padding = 1
    /\ ClaimRow(buf, props, 0) # ClaimRow(buf, props, 1)
    /\ ClaimRow(buf, props, 0) = ClaimRow(C10_Plain.buf, props, 1)

\* ---- C11
\* the plain loads of the file the chain started from and of the file it left
C11_First ==
    load_buffer(FALSE, last.origin, FALSE, MarkedBuffer, BufLen, DefaultProps, FALSE, FALSE, 0)

C11_Final ==
    load_buffer(FALSE, disk, FALSE, MarkedBuffer, BufLen, DefaultProps, FALSE, FALSE, 0)

\* A chain of at least one step, all of them ok, whose last step forced the
\* orientation of the file it started from.
C11_ChainDone ==
    /\ last.op = "chain_save"
    /\ last.result = "ok"
    /\ props.orientation = C11_First.props.orientation

\* C11 as stated: after such a chain the plain load of the final file reports
\* the same width, height, pixel format, orientation and line padding as the
\* plain load of the first file, and gives the same buffer.
C11_ChainPreservesAll ==
    C11_ChainDone =>
        /\ C11_First.result = "ok" /\ C11_Final.result = "ok"
        /\ C11_Final.props = C11_First.props
        /\ C11_Final.buf = C11_First.buf

\* C11: after such a chain the plain load of the final file reports the same
\* width, height, pixel format and orientation as the plain load of the first
\* file and gives the same bytes for every pixel of every row; unless the
\* first file has 8 bit per pixel and a colour table that is not gray, it also
\* reports the same line padding and gives the same buffer.
C11_ChainPreservesPixels ==
    C11_ChainDone =>
        LET A == C11_First
            B == C11_Final
        IN  /\ A.result = "ok" /\ B.result = "ok"
            /\ B.props.width = A.props.width /\ B.props.height = A.props.height
            /\ B.props.pixel_format = A.props.pixel_format
            /\ B.props.orientation = A.props.orientation
            /\ \A r \in 0 .. A.props.height - 1 :
                  ClaimRow(B.buf, B.props, r) = ClaimRow(A.buf, A.props, r)
            /\ ~(last.origin.hdr.bits_per_pixel = 8 /\ A.props.pixel_format = "BGR8")
                  => (B.props = A.props /\ B.buf = A.buf)

\* two steps on a top-down gray file, the last with a padding other than the file's
C11_Witness ==
    /\ C11_ChainDone
    /\ last.steps = 2
    /\ last.origin.hdr.bits_per_pixel = 8
    /\ last.origin.hdr.height < 0
    /\ C11_First.props.pixel_format = "Mono8"
    /\ props.line_padding # C11_First.props.line_padding
    /\ C11_Final.buf = C11_First.buf

\* ---- C12
\* a save that forced bottom up and returned ok
C12_SavedBottomUp ==
    /\ last.op = "save"
    /\ last.args.force_bottom_up
    /\ last.result = "ok"

\* C12: after a save with force_bottom_up that returned ok, whatever the
\* orientation of the properties, the height of the header of the file is
\* positive and a properties-only load of the file reports bottom_up.
C12_PositiveHeight ==
    C12_SavedBottomUp =>
        /\ disk.hdr.height > 0
        /\ load_props(FALSE, disk, DefaultProps, 0).props.orientation = "bottom_up"

\* The same for the properties whose width and height fit a signed 32 bit
\* integer, with the rows of a top-down buffer written last row first.
C12_PositiveHeightInRange ==
    (C12_SavedBottomUp /\ props.width <= I32Max /\ props.height <= I32Max) =>
        /\ disk.hdr.height = props.height
        /\ load_props(FALSE, disk, DefaultProps, 0).props.orientation = "bottom_up"
        /\ (ClaimStride(props) >= props.width * ClaimBpp(props.pixel_format)
              /\ props.pixel_format # "Mono8") =>
              LET used == props.width * ClaimBpp(props.pixel_format)
                  file_stride == 4 * ((used + 3) \div 4)
              IN  \A r \in 0 .. props.height - 1 :
                    SubSeq(disk.body, r * file_stride + 1, r * file_stride + used)
                      = BufFetch(buf, ((IF props.orientation = "top_down"
                                        THEN props.height - 1 - r ELSE r)
                                       * ClaimStride(props)) % SizeMod, used)

\* ---- C13
\* the load of the file of the call that forces nothing, into a buffer of its own
ClaimPlain ==
    load_buffer(FALSE, last.disk_in, FALSE, MarkedBuffer, BufLen, DefaultProps,
                FALSE, FALSE, 0)

\* C13: after a load into a buffer that returned ok, the line padding of the
\* properties is the caller's if force_line_padding was set and the file's
\* otherwise, the orientation is the caller's if force_orientation was set
\* and the file's otherwise, each whatever the other flag is; width, height
\* and pixel format are the file's; every row of the buffer, at the stride of
\* these properties, holds the pixels of the row of the file that the
\* orientation assigns to it; and no other byte of the buffer has changed.
C13_LayoutSelection ==
    (ClaimLoadAttempted /\ last.result = "ok") =>
        LET F == ClaimFile.props
            same == props.orientation = F.orientation
        IN  /\ props.line_padding = IF last.args.force_line_padding
                                    THEN last.props_in.line_padding ELSE F.line_padding
            /\ props.orientation = IF last.args.force_orientation
                                   THEN last.props_in.orientation ELSE F.orientation
            /\ props.width = F.width /\ props.height = F.height
            /\ props.pixel_format = F.pixel_format
            /\ ClaimPlain.result = "ok"
            /\ \A r \in 0 .. props.height - 1 :
                  ClaimRow(buf, props, r)
                    = ClaimRow(ClaimPlain.buf, ClaimPlain.props,
                               IF same THEN r ELSE props.height - 1 - r)
            /\ \A i \in 1 .. Len(buf) :
                  (i > last.args.buffersize \/ i > ClaimStride(props) * props.height
                     \/ ~ClaimPixelByte(props, i))
                    => buf[i] = last.buf_in[i]

\* one flag set and the other not, each against what the file has
C13_Witness ==
    /\ ClaimLoadAttempted /\ last.result = "ok"
    /\ last.args.force_orientation /\ ~last.args.force_line_padding
    /\ props.orientation = last.props_in.orientation
    /\ props.orientation # ClaimFile.props.orientation
    /\ props.line_padding = ClaimFile.props.line_padding
    /\ props.line_padding # last.props_in.line_padding
    /\ props.height = 2

\* ---- C14
\* The colour table of an 8 bit file, read from its bytes: the number of its
\* entries, and the blue, green and red byte of entry k (from 0).
ClaimPaletteLen(f) == IF f.hdr.num_colors # 0 THEN f.hdr.num_colors ELSE 256

ClaimPaletteByte(f, k, channel) ==
    f.body[(f.hdr.bitmap_info_header_size + 14 - 54) + 4 * k + channel]

ClaimPaletteGray(f) ==
    \A k \in 0 .. ClaimPaletteLen(f) - 1 :
        /\ ClaimPaletteByte(f, k, 1) = ClaimPaletteByte(f, k, 2)
        /\ ClaimPaletteByte(f, k, 2) = ClaimPaletteByte(f, k, 3)

ClaimAbs(x) == IF x < 0 THEN 0 - x ELSE x

\* C14: after a properties-only load that returned ok, width and height are
\* the absolute values of the header's, the orientation is top_down if the
\* header's height is negative and bottom_up otherwise, the line padding is
\* what fills a row of the file to a multiple of 4 bytes (0..3), and the
\* pixel format is Mono8 for 8 bit per pixel with r = g = b in every entry of
\* the colour table, BGR8 for 8 bit per pixel with another colour table and
\* for 24 bit per pixel, BGRA8 for 32 bit per pixel.
C14_Inference ==
    (last.op = "load_props" /\ last.result = "ok") =>
        LET f == last.disk_in
            h == f.hdr
            row == (h.bits_per_pixel \div 8) * ClaimAbs(h.width)
        IN  /\ props.width = ClaimAbs(h.width)
            /\ props.height = ClaimAbs(h.height)
            /\ props.orientation = IF h.height < 0 THEN "top_down" ELSE "bottom_up"
            /\ props.line_padding \in 0 .. 3
            /\ (row + props.line_padding) % 4 = 0
            /\ props.pixel_format =
                  CASE h.bits_per_pixel = 8 /\ ClaimPaletteGray(f) -> "Mono8"
                    [] h.bits_per_pixel = 8 /\ ~ClaimPaletteGray(f) -> "BGR8"
                    [] h.bits_per_pixel = 24 -> "BGR8"
                    [] h.bits_per_pixel = 32 -> "BGRA8"

\* a top-down 8 bit file with a colour table that is not gray
C14_Witness ==
    /\ last.op = "load_props" /\ last.result = "ok"
    /\ last.disk_in.hdr.bits_per_pixel = 8
    /\ ~ClaimPaletteGray(last.disk_in)
    /\ last.disk_in.hdr.height < 0
    /\ props.pixel_format = "BGR8"
    /\ props.orientation = "top_down"
    /\ props.line_padding = 3

\* an 8 bit file with a gray colour table that is not the identity
C14_WitnessGray ==
    /\ last.op = "load_props" /\ last.result = "ok"
    /\ last.disk_in.hdr.bits_per_pixel = 8
    /\ ClaimPaletteGray(last.disk_in)
    /\ ClaimPaletteByte(last.disk_in, 0, 1) # 0
    /\ props.pixel_format = "Mono8"

\* ---- C15
\* what another caller may have in its properties
C15_OtherProps ==
    CallerProps
    \cup { [width |-> BigDim, height |-> 0, line_padding |-> SizeMod - 1,
            pixel_format |-> "Mono8", orientation |-> "invalid"] }

\* C15: a properties-only load of a file returns the same result, and leaves
\* the same properties, whatever the properties held before the call; and a
\* load into a buffer that forces nothing returns the same result and leaves
\* the same properties and the same buffer whatever width, height, pixel
\* format, line padding and orientation the properties held before the call.
C15_CallerIndependence ==
    /\ (last.op = "load_props" /\ ~last.args.filename_null) =>
          \A q \in C15_OtherProps :
              LET other == load_props(FALSE, last.disk_in, q, last.args.fault)
              IN  other.result = last.result /\ other.props = props
    /\ (ClaimLoadAttempted /\ ~last.args.force_line_padding
            /\ ~last.args.force_orientation) =>
          \A q \in C15_OtherProps :
              LET other == load_buffer(FALSE, last.disk_in, FALSE, last.buf_in,
                                       last.args.buffersize, q, FALSE, FALSE,
                                       last.args.fault)
              IN  /\ other.result = last.result
                  /\ other.props = props
                  /\ other.buf = buf

\* a load that forces nothing, by a caller whose properties have nothing in
\* common with the file's
C15_Witness ==
    /\ ClaimLoadAttempted /\ last.result = "ok"
    /\ ~last.args.force_line_padding /\ ~last.args.force_orientation
    /\ last.props_in.orientation = "invalid"
    /\ last.props_in.pixel_format = "BGRA8"
    /\ props.pixel_format = "Mono8"
    /\ props.height = 2
    /\ props.line_padding # last.props_in.line_padding

\* ---- C16
\* The index byte of the file at column c of row r of the file (both from 0).
ClaimIndex(f, r, c) ==
    LET file_stride == 4 * ((ClaimAbs(f.hdr.width) + 3) \div 4)
    IN  f.body[(f.hdr.offset - 54) + r * file_stride + c + 1]

\* The place in the buffer of byte b of the row that row r of the file is
\* stored in, and the byte there.
ClaimBufferPlace(r, b) ==
    LET row == IF props.orientation = ClaimFile.props.orientation
               THEN r ELSE props.height - 1 - r
    IN  row * ClaimStride(props) + b + 1

ClaimBufferByte(r, b) == buf[ClaimBufferPlace(r, b)]

ClaimPaletteIdentity(f) ==
    \A k \in 0 .. ClaimPaletteLen(f) - 1 :
        \A channel \in 1 .. 3 : ClaimPaletteByte(f, k, channel) = k

\* a load into a buffer that returned ok and gave Mono8
C16_Mono8Loaded ==
    /\ ClaimLoadAttempted /\ last.result = "ok"
    /\ props.pixel_format = "Mono8"

\* C16: after a load of an 8 bit file with a gray colour table, every pixel
\* of the buffer is the index byte of the file if the colour table is the
\* identity, and the blue byte of the entry the index selects otherwise; so
\* the pixel differs from the index exactly if that entry is not the entry
\* of the identity.
C16_Mono8Decode ==
    C16_Mono8Loaded =>
        LET f == last.disk_in
        IN  \A r \in 0 .. props.height - 1 : \A c \in 0 .. props.width - 1 :
              LET index == ClaimIndex(f, r, c)
                  pixel == ClaimBufferByte(r, c)
              IN  /\ ClaimPaletteIdentity(f) => pixel = index
                  /\ ~ClaimPaletteIdentity(f) => pixel = ClaimPaletteByte(f, index, 1)
                  /\ (pixel # index) <=> (ClaimPaletteByte(f, index, 1) # index)

\* a colour table that is the identity in some entries only: one pixel is
\* the index, another is not
C16_Witness ==
    /\ C16_Mono8Loaded
    /\ ~ClaimPaletteIdentity(last.disk_in)
    /\ ClaimBufferByte(0, 0) # ClaimIndex(last.disk_in, 0, 0)
    /\ ClaimBufferByte(0, 1) = ClaimIndex(last.disk_in, 0, 1)

\* ---- C17
\* a load into a buffer of an 8 bit file that returned ok and gave BGR8
C17_IndexedLoaded ==
    /\ ClaimLoadAttempted /\ last.result = "ok"
    /\ last.disk_in.hdr.bits_per_pixel = 8
    /\ props.pixel_format = "BGR8"

\* C17: after a load of an 8 bit file with a colour table that is not gray,
\* bytes 3c, 3c+1 and 3c+2 of the row of the buffer that a row of the file is
\* stored in are the blue, green and red byte of the entry that the index
\* byte at column c of that row selects, for every column c of the image;
\* and the bytes of the row of the buffer behind its pixels are as before the
\* call: the padding of the row of the file is not decoded.
C17_IndexedDecode ==
    C17_IndexedLoaded =>
        LET f == last.disk_in
        IN  /\ ~ClaimPaletteGray(f)
            /\ \A r \in 0 .. props.height - 1 :
                  /\ \A c \in 0 .. props.width - 1 : \A channel \in 1 .. 3 :
                        ClaimBufferByte(r, 3 * c + channel - 1)
                          = ClaimPaletteByte(f, ClaimIndex(f, r, c), channel)
                  /\ \A b \in 3 * props.width .. ClaimStride(props) - 1 :
                        ClaimBufferByte(r, b) = last.buf_in[ClaimBufferPlace(r, b)]

\* a file with padding in its rows, loaded with padding in the rows of the buffer
C17_Witness ==
    /\ C17_IndexedLoaded
    /\ props.height = 2 /\ props.width = 2
    /\ props.line_padding = 3
    /\ props.orientation # ClaimFile.props.orientation
    /\ ClaimBufferByte(1, 3) = ClaimPaletteByte(last.disk_in, ClaimIndex(last.disk_in, 1, 1), 1)
    /\ ClaimBufferByte(1, 3) # ClaimBufferByte(1, 5)

\* ---- C18
\* the paddings a caller may put in place of the file's
C18_Paddings == ChainPaddings \cup {SizeMod - 3}

\* a properties-only load that returned ok: props are the file's
C18_Queried == last.op = "load_props" /\ last.result = "ok"

\* the load into a buffer of `size` bytes of the file just queried, with the
\* properties q
C18_Load(q, size, force_line_padding) ==
    load_buffer(FALSE, disk, FALSE, MarkedBuffer, size, q, force_line_padding, FALSE, 0)

\* C18: after a properties-only load that returned ok, a load of the same
\* file into a buffer of compute_buffer_size(props) bytes that forces nothing
\* does not return buffer_too_small; and for properties with another line
\* padding, forced, a buffer of compute_buffer_size of these properties is
\* not too small and a buffer of one byte less is.
C18_QueryThenLoad ==
    C18_Queried =>
        /\ C18_Load(props, compute_buffer_size(props), FALSE).result # "buffer_too_small"
        /\ \A padding \in C18_Paddings :
              LET q == [props EXCEPT !.line_padding = padding]
                  size == compute_buffer_size(q)
              IN  /\ C18_Load(q, size, TRUE).result # "buffer_too_small"
                  /\ size > 0 => C18_Load(q, size - 1, TRUE).result = "buffer_too_small"

\* a file with padding in its rows: the load that follows the query returns ok
C18_Witness ==
    /\ C18_Queried
    /\ props.line_padding = 3
    /\ props.height = 2
    /\ compute_buffer_size(props) = 8
    /\ C18_Load(props, 8, FALSE).result = "ok"
    /\ C18_Load([props EXCEPT !.line_padding = 1], 4, TRUE).result = "ok"

\* ---- C19
ClaimOperations == {"load_props", "load_buffer", "save"}

\* the result kinds an operation assigns: every kind but the one of a
\* default-constructed operation_result
ClaimAssignedKinds == ResultKinds \ {"invalid"}

\* C19: no call of load (either overload) or save returns the result kind
\* invalid, whatever the arguments, the file and the faults of the stream; the
\* kind returned is always one of the kinds an operation assigns.
C19_NeverInvalid ==
    last.op \in ClaimOperations => last.result \in ClaimAssignedKinds

\* load(props) on a file that cannot be opened: the result starts out
\* default-constructed and is assigned in the branch of the closed stream
C19_Witness ==
    /\ last.op = "load_props"
    /\ ~last.args.filename_null
    /\ ~last.disk_in.exists
    /\ last.result = "file_not_found"

\* ---- C20
\* the position in the record of a call of the first operation on the file
\* that failed; 0: none failed
ClaimFirstFailure(io) ==
    IF \A i \in 1 .. Len(io) : io[i].ok THEN 0
    ELSE CHOOSE i \in 1 .. Len(io) : ~io[i].ok /\ \A j \in 1 .. i - 1 : io[j].ok

ClaimFileCall == last.op \in ClaimOperations

\* C20: in every load and save call nothing is attempted on the file after
\* the first read, seek or write that failed, and the call returns an error.
C20_FailFast ==
    ClaimFileCall /\ ClaimFirstFailure(last.io) # 0 =>
        /\ ClaimFirstFailure(last.io) = Len(last.io)
        /\ last.result # "ok"

\* the same for the two overloads of load alone
C20_LoadFailFast ==
    last.op \in {"load_props", "load_buffer"} /\ ClaimFirstFailure(last.io) # 0 =>
        /\ ClaimFirstFailure(last.io) = Len(last.io)
        /\ last.result # "ok"

\* ---- C21
C21_Saved == last.op = "save" /\ last.result = "ok"

\* the writes of colour table entries a call attempted
ClaimTableWrites(io) == { i \in 1 .. Len(io) : io[i].what = "color_table" }

\* C21: every successful save of a Mono8 image writes, directly behind the
\* header, 256 palette entries with blue = green = red = i in entry i, declares
\* 256 colours and the offset 54 + 1024; a successful save of a BGR8 or BGRA8
\* image writes no palette, declares no colours and the offset 54.
C21_Mono8Encode ==
    C21_Saved =>
        IF props.pixel_format = "Mono8"
        THEN /\ disk.hlen = 54
             /\ disk.hdr.num_colors = 256
             /\ disk.hdr.offset = 54 + 1024
             /\ Cardinality(ClaimTableWrites(last.io)) = 256
             /\ Len(disk.body) >= 1024
             /\ \A i \in 0 .. 255 : \A c \in 1 .. 3 : disk.body[4 * i + c] = i
        ELSE /\ disk.hlen = 54
             /\ disk.hdr.num_colors = 0
             /\ disk.hdr.important_colors = 0
             /\ disk.hdr.offset = 54
             /\ ClaimTableWrites(last.io) = {}

C21_Witness ==
    /\ C21_Saved
    /\ props.pixel_format = "Mono8"
    /\ props.width = 2
    /\ disk.body[4 * 200 + 3] = 200
    /\ disk.hdr.offset = 1078

C21_WitnessDirect ==
    /\ C21_Saved
    /\ props.pixel_format = "BGRA8"
    /\ disk.hdr.offset = 54

\* ---- C22
\* The stride of the rows of a file that stores P: the bytes of a row of
\* pixels, rounded up to a multiple of 4.
ClaimFileStride(P) == ((P.width * ClaimBpp(P.pixel_format) + 3) \div 4) * 4

\* The bytes of a saved file in front of its rows.
ClaimTableBytes(P) == IF P.pixel_format = "Mono8" THEN 1024 ELSE 0

\* Byte c (from 1) of row r (from 0) of the body of a file that stores P.
ClaimFileByte(f, P, r, c) ==
    LET k == ClaimTableBytes(P) + r * ClaimFileStride(P) + c
    IN  IF k \in 1 .. Len(f.body) THEN f.body[k] ELSE Poison

\* Byte c (from 1) of row r (from 0) of a buffer laid out by P.
ClaimRowByte(b, P, r, c) ==
    LET k == r * ClaimStride(P) + c
    IN  IF k \in 1 .. Len(b) THEN b[k] ELSE Poison

\* File row r holds the pixels of buffer row q.
ClaimRowSaved(r, q) ==
    \A c \in 1 .. props.width * ClaimBpp(props.pixel_format) :
        /\ ClaimFileByte(disk, props, r, c) \in Byte
        /\ ClaimFileByte(disk, props, r, c) = ClaimRowByte(buf, props, q, c)

C22_Saved == last.op = "save" /\ last.result = "ok"

\* C22: a successful save with force_bottom_up = false stores a negative
\* height exactly when the buffer is top-down and stores buffer row i as file
\* row i; with force_bottom_up = true and a top-down buffer, file row i holds
\* buffer row height - 1 - i.
C22_OwnOrientation ==
    C22_Saved =>
        /\ ~last.args.force_bottom_up =>
              /\ disk.hdr.height < 0 <=> props.orientation = "top_down"
              /\ \A i \in 0 .. props.height - 1 : ClaimRowSaved(i, i)
        /\ last.args.force_bottom_up /\ props.orientation = "top_down" =>
              \A i \in 0 .. props.height - 1 : ClaimRowSaved(i, props.height - 1 - i)

\* The same for the widths and heights that fit a signed 32 bit integer.
C22_OwnOrientationInRange ==
    props.width <= I32Max /\ props.height <= I32Max => C22_OwnOrientation

\* ---- C23
\* the smallest multiple of 4 that is not below x
ClaimRoundedUp(x) == CHOOSE m \in x .. x + 3 : m % 4 = 0

\* the widths of a file: the positive values of a signed 32 bit integer
ClaimFileWidths == 1 .. I32Max

C23_Saved == last.op = "save" /\ last.result = "ok"

\* the buffer row that save stores as file row r
ClaimSourceRow(r) ==
    IF last.args.force_bottom_up /\ props.orientation = "top_down"
    THEN props.height - 1 - r
    ELSE r

\* the file stride and the file padding of every width of a file
C23_Stride ==
    \A bits \in {8, 24, 32} : \A w \in ClaimFileWidths :
        LET row == (bits \div 8) * w
        IN  /\ determine_stride(bits, w) = ClaimRoundedUp(row)
            /\ determine_line_padding(bits, w) = ClaimRoundedUp(row) - row
            /\ determine_line_padding(bits, w) \in 0 .. 3

\* the rows of the saved file: the pixels of the buffer row, then zero bytes
\* up to the file stride
C23_Rows ==
    LET row == props.width * ClaimBpp(props.pixel_format)
        stride == ClaimRoundedUp(row)
    IN  /\ Len(disk.body) = ClaimTableBytes(props) + stride * props.height
        /\ \A r \in 0 .. props.height - 1 :
              /\ \A c \in 1 .. row :
                    ClaimFileByte(disk, props, r, c)
                        = ClaimRowByte(buf, props, ClaimSourceRow(r), c)
              /\ \A c \in row + 1 .. stride : ClaimFileByte(disk, props, r, c) = 0

\* C23: for 8, 24 and 32 bit per pixel and every width > 0 the file stride is
\* the smallest multiple of 4 not below bytes per pixel x width and the file
\* padding is the difference, in 0 .. 3; a successful save writes for each row
\* the bytes per pixel x width bytes of the pixels of the buffer row and then
\* as many zero bytes as the file padding, so that the pixel data is
\* file stride x height bytes long.
C23_FileGeometry == C23_Stride /\ (C23_Saved => C23_Rows)

\* The same for the saves of a width that fits a signed 32 bit integer.
C23_FileGeometryInRange ==
    C23_Stride /\ (C23_Saved /\ props.width \in ClaimFileWidths => C23_Rows)

\* ---- C24
C24_Saved == last.op = "save" /\ last.result = "ok"

\* the properties-only load of the file on the disk, on a stream without faults
C24_Back == load_props(FALSE, disk, DefaultProps, 0)

C24_Same ==
    /\ C24_Back.result = "ok"
    /\ C24_Back.props.width = props.width
    /\ C24_Back.props.height = props.height
    /\ C24_Back.props.pixel_format = props.pixel_format

\* C24: the file of every successful save, whatever the width and height the
\* 32 bit fields of the properties hold, is accepted by the properties-only
\* load, which reports the width, height and pixel format that were saved.
C24_SavedLoads == C24_Saved => C24_Same

\* The same for the widths and heights that fit a signed 32 bit integer.
C24_SavedLoadsInRange ==
    C24_Saved /\ props.width <= I32Max /\ props.height <= I32Max => C24_Same

\* ---- C25
\* a load into a buffer of an 8 bit file that returned ok
C25_Decoded ==
    /\ ClaimLoadAttempted /\ last.result = "ok"
    /\ last.disk_in.hdr.bits_per_pixel = 8

\* the index bytes of the file that the decode looks up in the colour table:
\* all of them, unless the colour table is the identity
ClaimLookups(f) ==
    IF ClaimPaletteIdentity(f) THEN {}
    ELSE { ClaimIndex(f, r, c) : r \in 0 .. props.height - 1, c \in 0 .. props.width - 1 }

\* C25: in the decode of every 8 bit file that passed the checks of the
\* header, every index byte looked up is below the number of entries loaded,
\* so every byte the decode stores is a byte of an entry of the colour table.
C25_LookupsInside ==
    C25_Decoded =>
        /\ \A index \in ClaimLookups(last.disk_in) : index < ClaimPaletteLen(last.disk_in)
        /\ \A i \in 1 .. Len(buf) : buf[i] \in Byte

\* The decode stores something that is no byte of the colour table exactly
\* when an index byte it looks up is not below the number of entries.
C25_OutsideExactly ==
    C25_Decoded =>
        ((\E i \in 1 .. Len(buf) : buf[i] \notin Byte)
            <=> (\E index \in ClaimLookups(last.disk_in) : index >= ClaimPaletteLen(last.disk_in)))

\* ---- C26
\* a load into a buffer or a save whose arguments were accepted
C26_Accepted ==
    /\ last.op \in {"load_buffer", "save"}
    /\ last.result \notin {"null_argument", "invalid_argument", "buffer_too_small"}

\* C26: every byte of the buffer that load stores to and save reads from lies
\* below the buffer size the caller passed, also for a line padding so large
\* that the stride wraps around in the arithmetic of size_t.
C26_InBounds ==
    C26_Accepted => last.hi <= last.args.buffersize

\* The stride of the size check is not below the bytes of the pixels of a row.
C26_StrideCoversRow ==
    last.op = "save" /\ last.result = "ok" =>
        determine_stride_props(props) >= props.width * ClaimBpp(props.pixel_format)

\* Neither the stride nor stride x height of a buffer laid out by P wraps
\* around in the arithmetic of size_t.
ClaimSizeUnwrapped(P) ==
    (P.width * ClaimBpp(P.pixel_format) + P.line_padding) * P.height < SizeMod

\* The accesses are in bounds whenever the size of the buffer does not wrap
\* around.
C26_InBoundsUnwrapped ==
    (/\ C26_Accepted
     /\ last.op = "save" => ClaimSizeUnwrapped(last.props_in)
     /\ last.op = "load_buffer" /\ last.result = "ok" => ClaimSizeUnwrapped(props))
        => last.hi <= last.args.buffersize

\* ---- C27
\* the kinds of the failures of writing, and the kinds of the failures of
\* reading and of what is read
ClaimWriteKinds == {"file_write_error", "file_open_for_writing_error"}
ClaimReadKinds ==
    {"file_not_found", "file_read_error", "not_a_bmp_file", "corrupt",
     "unsupported_compression", "unsupported_bit_per_pixel",
     "unsupported_use_of_color_table", "too_large_color_table"}

C27_Load == last.op \in {"load_props", "load_buffer"}

\* a stream operation of a load failed after the header was read: the colour
\* table, the seek to the pixel data, a row, or the seek over a row's padding
C27_LoadFailure ==
    /\ C27_Load
    /\ ClaimFirstFailure(last.io) > 2

\* C27: no load returns file_write_error or file_open_for_writing_error, every
\* failed read or seek of a load behind the header is reported as
\* file_read_error, and no save returns a kind of the failures of reading.
C27_SideSpecific ==
    /\ C27_Load => last.result \notin ClaimWriteKinds
    /\ C27_LoadFailure => last.result = "file_read_error"
    /\ last.op = "save" => last.result \notin ClaimReadKinds

\* the last stream operation of the call was the seek over the padding of a
\* row of the file, and it failed
ClaimPaddingSeekFailed ==
    /\ last.io # << >>
    /\ last.io[Len(last.io)] = Ev("seek", "padding", FALSE)

\* The same without the seek over the padding of a row of the file.
C27_SideSpecificButPadding ==
    /\ C27_Load /\ ~ClaimPaddingSeekFailed => last.result \notin ClaimWriteKinds
    /\ C27_LoadFailure /\ ~ClaimPaddingSeekFailed => last.result = "file_read_error"
    /\ last.op = "save" => last.result \notin ClaimReadKinds

\* the failed seek over the padding is what returns file_write_error
C27_PaddingSeek ==
    C27_Load /\ ClaimPaddingSeekFailed => last.result = "file_write_error"

\* ---- C28
\* a load into a buffer that returned ok
C28_Loaded == ClaimLoadAttempted /\ last.result = "ok"

\* Whether byte i (from 1) of the buffer is a byte of a pixel of one of the
\* height rows of the image the properties describe.
ClaimImageByte(i) ==
    /\ i <= ClaimStride(props) * props.height
    /\ (i - 1) % ClaimStride(props) < props.width * ClaimBpp(props.pixel_format)

\* C28: a successful load into a buffer accesses the buffer up to the last
\* pixel of the last row and leaves every byte that is no pixel of a row as it
\* was: the line padding of every row and everything behind the image; save
\* and compute_buffer_size leave buffer and properties as they were.
C28_Frame ==
    /\ C28_Loaded =>
          /\ ClaimStride(props) > 0
          /\ last.hi = ClaimStride(props) * (props.height - 1)
                          + props.width * ClaimBpp(props.pixel_format)
          /\ \A i \in 1 .. Len(buf) : ~ClaimImageByte(i) => buf[i] = last.buf_in[i]
    /\ last.op \in {"save", "compute_buffer_size"} =>
          buf = last.buf_in /\ props = last.props_in

\* a load of two rows with a line padding of 1 forced: the padding of both
\* rows and the bytes behind them are the caller's, the pixels are not
C28_Witness ==
    /\ C28_Loaded
    /\ last.args.force_line_padding
    /\ props.height = 2 /\ props.line_padding = 1 /\ props.pixel_format = "BGR8"
    /\ props.width = 2
    /\ buf[7] = last.buf_in[7] /\ buf[14] = last.buf_in[14] /\ buf[15] = last.buf_in[15]
    /\ \A i \in 1 .. 6 : buf[i] # last.buf_in[i]

\* ---- C29
C29_Load == last.op \in {"load_props", "load_buffer"} /\ last.io # << >>

\* the header of the file of the call was read completely
C29_HeaderRead ==
    /\ C29_Load
    /\ Len(last.io) >= 2 /\ last.io[2] = Ev("read", "header", TRUE)

\* load_and_check_header went on to the size of the pixel data: every check
\* in front of it passed
C29_GeometryReached ==
    /\ C29_HeaderRead
    /\ check_header([last.disk_in.hdr EXCEPT !.image_size_bytes = 0]) = "ok"

\* load_image_properties went on to determine_image_properties
C29_PropertiesReached ==
    /\ C29_HeaderRead
    /\ last.result \notin {"file_not_found", "file_read_error"}
    /\ check_header(last.disk_in.hdr) = "ok"

\* the dispatch of load (into buffer) took its final branch: the seek to the
\* pixel data was the last operation on the stream, and it succeeded
C29_DispatchFellThrough ==
    /\ last.op = "load_buffer" /\ last.io # << >>
    /\ last.io[Len(last.io)] = Ev("seek", "pixel_data", TRUE)
    /\ last.result = "unsupported_bit_per_pixel"

\* save or compute_buffer_size went on to the stride of the buffer
C29_StrideReached ==
    \/ last.op = "save" /\ last.result \notin {"null_argument", "invalid_argument"}
    \/ last.op = "compute_buffer_size" /\ last.size # 0
    \/ last.op = "load_buffer" /\ last.result = "ok"

\* C29: no call reaches a defensive path: byte_per_pixel_in_file and
\* determine_image_properties are only called with 8, 24 or 32 bit per pixel,
\* the colour table of an accepted 8 bit header never has the size 0, the
\* dispatch of load (into buffer) always takes one of its three transfer
\* branches, determine_stride and save only see one of the three pixel
\* formats, and the padding of a row of a saved file is at most 4.
C29_DefensiveUnreachable ==
    /\ C29_GeometryReached =>
          /\ last.disk_in.hdr.bits_per_pixel \in {8, 24, 32}
          /\ byte_per_pixel_in_file(last.disk_in.hdr.bits_per_pixel) # 0
    /\ C29_GeometryReached /\ last.disk_in.hdr.bits_per_pixel = 8 =>
          table_size(last.disk_in.hdr) # 0
    /\ C29_PropertiesReached /\ last.result = "ok" =>
          /\ last.disk_in.hdr.bits_per_pixel \in {8, 24, 32}
          /\ props.pixel_format \in {"Mono8", "BGR8", "BGRA8"}
          /\ transfer_mode(last.disk_in.hdr, props) # "none"
    /\ ~C29_DispatchFellThrough
    /\ C29_StrideReached =>
          /\ props.pixel_format \in {"Mono8", "BGR8", "BGRA8"}
          /\ byte_per_pixel(props.pixel_format) # 0
    /\ last.op = "save" /\ last.result \in {"ok", "file_write_error"} =>
          /\ save_header(props, last.args.force_bottom_up).bits_per_pixel \in {8, 24, 32}
          /\ determine_line_padding(save_header(props, last.args.force_bottom_up).bits_per_pixel,
                                     save_header(props, last.args.force_bottom_up).width) <= 4

\* a load into a buffer of an 8 bit file with a colour table that is not
\* gray went through the dispatch into the indexed branch
C29_Witness ==
    /\ last.op = "load_buffer" /\ last.result = "ok"
    /\ C29_GeometryReached
    /\ last.disk_in.hdr.bits_per_pixel = 8
    /\ transfer_mode(last.disk_in.hdr, props) = "indexed"

\* a save that wrote rows with padding
C29_WitnessSave ==
    /\ last.op = "save" /\ last.result = "ok"
    /\ props.pixel_format = "BGR8"
    /\ determine_line_padding(24, props.width) = 2

\* ---- C30
C30_Queried == last.op = "load_props" /\ last.result = "ok"

\* C30: after every successful properties-only load the stride of the buffer
\* the properties describe, width x bytes per pixel + line_padding, is a
\* multiple of 4, also for an 8 bit file whose colour table is not gray and
\* which is reported as BGR8.
C30_NativeAligned ==
    C30_Queried =>
        (props.width * ClaimBpp(props.pixel_format) + props.line_padding) % 4 = 0

\* an 8 bit file reported as BGR8
C30_Expanded ==
    last.disk_in.hdr.bits_per_pixel = 8 /\ props.pixel_format = "BGR8"

\* The stride is a multiple of 4 for every file that is not expanded, and for
\* the expanded ones of an even width.
C30_NativeAlignedButExpanded ==
    C30_Queried /\ ~(C30_Expanded /\ props.width % 2 = 1) =>
        (props.width * ClaimBpp(props.pixel_format) + props.line_padding) % 4 = 0

\* The line padding reported for an expanded file is the padding of its rows
\* of one byte per pixel.
C30_ExpandedPadding ==
    C30_Queried /\ C30_Expanded =>
        (props.width + props.line_padding) % 4 = 0 /\ props.line_padding \in 0 .. 3

====
